---- MODULE Spec2Model ----
(***************************************************************************)
(* A model of the load-test worker's execution engine: the Case Runner's   *)
(* ramp loop, the executors (TestCase.Run), the rate gate and its          *)
(* scheduler goroutine, the stop procedure (StopRunChannel), and the       *)
(* aggregator's fold (HandleOuput) and ship (SendMetrics) goroutines.      *)
(*                                                                         *)
(* Goroutines interleave freely: a time.Sleep only lets time pass, it      *)
(* orders nothing. A panic no goroutine recovers ends the process.         *)
(* Step indices are 1-based here ("0", "1", ... in the source).            *)
(***************************************************************************)
EXTENDS Integers, Sequences, FiniteSets, TLC

(* ------------------------------ bounds -------------------------------- *)
\* Executors of the runner (Info.MaxConcurrencyInThisWoker).
MaxExec == 2
\* Steps of the registered case.
NumSteps == 2
\* Largest rpsLimit a step returns.
MaxRps == 1
\* Sub-records a plugin attaches to the record it returns.
MaxSub == 2
\* Plugin invocations followed in one run.
MaxCalls == 2
\* Capacity of the output and of the metrics channel in the model.
ChanCap == 2
\* Clock ticks in one second (the limiter's window).
TicksPerSecond == 1
\* Clock ticks in one wall-clock minute.
TicksPerMinute == 1
\* Last clock value followed.
MaxTime == 1
\* Bits of an integer in the worker's slice arithmetic (64 in the source).
IntBits == 3
\* Case Runners one worker instantiates in the behaviours followed.
MaxRunners == 2
\* Largest rampingSeconds of a case.
MaxRamp == 2
\* Bits of a time.Duration (64 in the source).
DurationBits == 5
\* Minutes of a run that is followed over several rollovers.
MaxMinutes == 2
\* time.Second in the units of a time.Duration (10^9 in the source).
Second == 3

VARIABLES
  Teststeps,              \* TestCase.Teststeps: <<[rps, ContinueWhenFailed]>>
  TearDown,               \* TestCase.TearDown # nil
  Plugin,                 \* the shapes of record the steps' ReqPluginFunc returns
  Info,                   \* CaseRunner.Info: [MaxConcurrencyInThisWoker, ...]
  IsRunning,              \* CaseRunner.IsRunning
  ResChans,               \* the field Output.ResChans: "rc" or "nil"
                          \* ("noOutput" while cr.Output itself is nil)
  MetricsChan,            \* the field CaseRunner.MetricsChan: "mc" or "nil"
  ActiveConcurrencyCount, \* CaseRunner.ActiveConcurrencyCount
  rc,                     \* the output channel: [buf, closed]
  mc,                     \* the metrics channel: [buf, closed]
  Lock,                   \* RpsQLimiter.Lock: its holder, << >> when free
  QMap,                   \* RpsQLimiter.QMap: step -> queue of waiters
  Limter,                 \* RpsQLimiter.Limter: step -> times of the grants in the window
  now,                    \* the wall clock, in ticks
  ramp,                   \* the ramp loop of CaseRunner.Run: [pc, i, grants, ...],
                          \* with rampingLimit and rampingLimitDuration while
                          \* Run computes them
  exec,                   \* the executors: [pc, si, results, ri, ok, ch, ...]
  sched,                  \* the rate-gate scheduler: [pc, todo, k, ch, isHit]
  stopPc,                 \* StopRunChannel's position
  callTimeMap,            \* HandleOuput's map: key -> samples
  lastTs,                 \* HandleOuput's lastTs
  fold,                   \* HandleOuput: [pc, res, ts, metrics]
  ship,                   \* SendMetrics: [pc]
  crashed,                \* an unrecovered panic ended the process
  mayPanic,               \* the user callbacks of this run may panic
  hist,                   \* history of the run (observations only)
  worker,                 \* the WorkerRunner: [Index, Status, RunningCaseRunner, ...]
  coordinator,            \* the case the coordinator directs: [TotalMaxConcurrency, ...]
  GenReqParams,           \* the map the steps' GenReqParamsFunc returns
  result                  \* a Result in a plugin's hands: [rec, atEnd, assigned]

vars ==
  << Teststeps, TearDown, Plugin, Info, IsRunning, ResChans, MetricsChan,
     ActiveConcurrencyCount, rc, mc, Lock, QMap, Limter, now, ramp, exec,
     sched, stopPc, callTimeMap, lastTs, fold, ship, crashed, mayPanic, hist,
     worker, coordinator, GenReqParams, result >>

Execs == 1..MaxExec

StepIdx == 1..NumSteps

(* ----------------------------- helpers -------------------------------- *)
RECURSIVE SelectIdx(_, _, _)
\* The elements of s, from index i on, whose index is in keep.
SelectIdx(s, keep, i) ==
  IF i > Len(s) THEN << >>
  ELSE IF i \in keep THEN << s[i] >> \o SelectIdx(s, keep, i + 1)
  ELSE SelectIdx(s, keep, i + 1)

\* time.Now().UnixMilli() / 1000 / 60
MinuteOf(t) ==
  t \div TicksPerMinute

\* The values of an int64 and of a uint64.
Int64 ==
  (-(2^(IntBits - 1))) .. (2^(IntBits - 1) - 1)

UInt64 ==
  0 .. (2^IntBits - 1)

\* int64(x), and the wrap-around of int64 arithmetic.
ToInt64(x) ==
  ((x + 2^(IntBits - 1)) % (2^IntBits)) - 2^(IntBits - 1)

\* uint64(x)
ToUInt64(x) ==
  x % (2^IntBits)

(* ------------------------- result records ----------------------------- *)
\* What a plugin sets on a record: Result.Success and Result.ResponseCode.
Outcomes ==
  { [Success |-> TRUE, ResponseCode |-> 200],
    [Success |-> FALSE, ResponseCode |-> 500] }

RECURSIVE SeqsUpTo(_, _)
\* The sequences over S of length at most n.
SeqsUpTo(S, n) ==
  IF n = 0 THEN { << >> }
  ELSE LET shorter == SeqsUpTo(S, n - 1)
       IN shorter \cup { Append(q, x) : q \in { r \in shorter : Len(r) = n - 1 }, x \in S }

\* The shapes of record a plugin may return: the parent's outcome, the
\* outcomes of the sub-records it attached with AddSub, and whether it
\* called AddSub on each of these sub-records too (nested).
PluginReturns ==
  { r \in [ parent : Outcomes, subs : SeqsUpTo(Outcomes, MaxSub), nested : BOOLEAN ] :
      r.nested => Len(r.subs) > 0 }

\* A record (Result): call numbers the plugin invocation, sub is 0 for the
\* parent and i for its i-th sub-record; EndTime is the clock at End().
NewResult(call, sub, s, o, t, subResults) ==
  [ call |-> call, sub |-> sub, Name |-> << s, sub >>,
    Success |-> o.Success, ResponseCode |-> o.ResponseCode,
    EndTime |-> t, SubResults |-> subResults ]

\* The record the plugin returns for invocation `call` of step s at time t:
\* AddSub appends a new record to the SubResults of the record it is called
\* on, which may be a sub-record; the sub-record attached to the i-th
\* sub-record is numbered MaxSub + i.
PluginRecord(call, s, ret, t) ==
  NewResult(call, 0, s, ret.parent, t,
            [ i \in 1..Len(ret.subs) |->
                NewResult(call, i, s, ret.subs[i], t,
                          IF ret.nested
                          THEN << NewResult(call, MaxSub + i, s, ret.subs[i], t, << >>) >>
                          ELSE << >>) ])

\* A bug: the parent is reported together with its sub-records.
GetResults_WithParent(res) ==
  << [ res EXCEPT !.SubResults = << >> ] >> \o res.SubResults

\* A bug: the record is reported as the plugin returned it.
GetResults_Unflattened(res) ==
  << res >>

\* TestCase.Run: the records reported for one plugin return.
GetResults(res) ==
  IF Len(res.SubResults) = 0 THEN << res >> ELSE res.SubResults

(* ---------------------- a record in a plugin's hands ------------------ *)
\* AcquireResult(name) at time t.
AcquireResult(name, t) ==
  [ Name |-> name, ResponseCode |-> 0, Success |-> TRUE,
    BeginTime |-> t, EndTime |-> t ]

\* A bug: End stamps the time and leaves Success as it is.
End_StampOnly(r, t) ==
  [ r EXCEPT !.EndTime = t ]

\* Result.End at time t.
End(r, t) ==
  [ r EXCEPT !.Success = (r.ResponseCode = 200), !.EndTime = t ]

\* The response codes a plugin assigns.
ResponseCodes ==
  { 0, 200, 500 }

\* The variables a plugin's work on its record leaves alone.
engineVars ==
  << Teststeps, TearDown, Plugin, Info, IsRunning, ResChans, MetricsChan,
     ActiveConcurrencyCount, rc, mc, Lock, QMap, Limter, now, ramp, exec,
     sched, stopPc, callTimeMap, lastTs, fold, ship, crashed, mayPanic, hist,
     worker, coordinator, GenReqParams >>

\* Result.Begin
ResultBegin ==
  /\ ~crashed
  /\ result' = [ result EXCEPT !.rec.BeginTime = now ]
  /\ UNCHANGED engineVars

\* The plugin assigns the field ResponseCode.
ResultSetResponseCode ==
  /\ ~crashed
  /\ \E c \in ResponseCodes :
       result' = [ result EXCEPT !.rec.ResponseCode = c, !.atEnd = FALSE ]
  /\ UNCHANGED engineVars

\* The plugin assigns the field Success; assigned keeps the value.
ResultSetSuccess ==
  /\ ~crashed
  /\ \E b \in BOOLEAN :
       result' = [ result EXCEPT !.rec.Success = b, !.atEnd = FALSE,
                                 !.assigned = << b >> ]
  /\ UNCHANGED engineVars

\* The plugin calls End; atEnd holds until the plugin writes a field again.
ResultEnd ==
  /\ ~crashed
  /\ result' = [ result EXCEPT !.rec = End(@, now), !.atEnd = TRUE ]
  /\ UNCHANGED engineVars

\* A record just acquired: End has not been called, Success not assigned.
InitResult ==
  result = [ rec |-> AcquireResult(<< "s" >>, 0), atEnd |-> FALSE, assigned |-> << >> ]

(* ------------------------ request parameters -------------------------- *)
\* Strings are sequences of characters; Digits are the decimal digits.
Digits ==
  << "0", "1", "2", "3", "4", "5", "6", "7", "8", "9" >>

RECURSIVE Sprintf(_)
\* fmt.Sprintf("%v", n) of an unsigned integer: its decimal digits.
Sprintf(n) ==
  IF n < 10 THEN << Digits[n + 1] >>
  ELSE Sprintf(n \div 10) \o << Digits[(n % 10) + 1] >>

\* TestCase.Name
CaseName ==
  << "c" >>

\* TestStep.StepName of step s.
StepName(s) ==
  << "s" >> \o Sprintf(s)

\* CaseRunner.Run: fmt.Sprintf("%v-%v", cr.TestCase.Name, i)
GoroutineId(name, i) ==
  name \o << "-" >> \o Sprintf(i)

\* CaseRunner.Run: the coroutineParams of the executor of index i.
CoroutineParams(i) ==
  [ k \in { "__goroutine_id", "__executor_index", "__worker_total",
            "__worker_index", "__worker_size" } |->
      CASE k = "__goroutine_id" -> GoroutineId(CaseName, i)
        [] k = "__executor_index" -> Sprintf(i)
        [] k = "__worker_total" -> Sprintf(Info.WorkerTotal)
        [] k = "__worker_index" -> Sprintf(Info.WorkerIndex)
        [] k = "__worker_size" -> Sprintf(Info.WorkerSize) ]

\* TestCase.Run: the map GenReqParamsFunc returned, with __name,
\* __goroutine_id and __executor_index set for step s and the executor
\* whose coroutineParams are cp.
ReqParams(gen, s, cp) ==
  [ k \in DOMAIN gen \cup { "__name", "__goroutine_id", "__executor_index" } |->
      CASE k = "__name" -> StepName(s)
        [] k = "__goroutine_id" -> cp["__goroutine_id"]
        [] k = "__executor_index" -> cp["__executor_index"]
        [] OTHER -> gen[k] ]

\* A map without keys.
NoParams ==
  [ k \in {} |-> << >> ]

\* Maps a GenReqParamsFunc may return: an empty one, one with a key of the
\* user's, and one that sets the reserved keys itself.
GenReturns ==
  { NoParams,
    [ k \in { "q" } |-> << "x" >> ],
    [ k \in { "__name", "__goroutine_id", "__executor_index", "__worker_total",
              "__worker_index", "__worker_concurrency" } |-> << "x" >> ] }

(* ----------------------------- executors ------------------------------ *)
\* A bug: the ContinueWhenFailed flag is read inverted.
BreakOnFailure_Inverted(ok, continueWhenFailed) ==
  ~ok /\ continueWhenFailed

\* TestCase.Run: `if !ok && !ts.ContinueWhenFailed { break }`
BreakOnFailure(ok, continueWhenFailed) ==
  ~ok /\ ~continueWhenFailed

\* A bug: the stop flag is not read again after the rate gate.
StopAfterGate_Missing(running) ==
  FALSE

\* TestCase.Run: `if !caseRunner.IsRunning { break }` after the rate gate.
StopAfterGate(running) ==
  ~running

\* rpsQLimiter.Limter.HasKey(ts.GetStepIndex())
HasKey(s) ==
  Teststeps[s].rps > 0

SetExec(e, r) ==
  [ exec EXCEPT ![e] = r ]

\* The executor after the result at x.ri is dealt with: the next result, or
\* the end of the step: break (the 100 ms sleep, then the outer loop), or
\* the next step.
AfterResult(x) ==
  IF x.ri < Len(x.results) THEN [ x EXCEPT !.ri = x.ri + 1, !.pc = "post" ]
  ELSE [ x EXCEPT !.pc = IF BreakOnFailure(x.ok, Teststeps[x.si].ContinueWhenFailed)
                         THEN "outer" ELSE "step",
                  !.si = IF BreakOnFailure(x.ok, Teststeps[x.si].ContinueWhenFailed)
                         THEN x.si ELSE x.si + 1,
                  !.results = << >>, !.ri = 0, !.pushed = << >>, !.skipped = {},
                  !.req = NoParams ]

\* Top of the outer loop (after the 100 ms sleep that ends an iteration):
\* `if !caseRunner.IsRunning { break }`, else the step loop starts over.
ExecOuter(e) ==
  /\ ~crashed
  /\ UNCHANGED << worker, coordinator, GenReqParams, result >>
  /\ exec[e].pc = "outer"
  /\ exec' = SetExec(e, IF ~IsRunning
                         THEN [ exec[e] EXCEPT !.pc = "teardown" ]
                         ELSE [ exec[e] EXCEPT !.pc = "step", !.si = 1 ])
  /\ UNCHANGED << Teststeps, TearDown, Plugin, Info, IsRunning, ResChans,
                  MetricsChan, ActiveConcurrencyCount, rc, mc, Lock, QMap, Limter,
                  now, ramp, sched, stopPc, callTimeMap, lastTs, fold, ship,
                  crashed, mayPanic, hist >>

\* A bug: a step that is not to run ends the iteration.
AfterSkip_Break(x) ==
  [ x EXCEPT !.pc = "outer" ]

\* TestCase.Run: `if !ts.ExecWhenFunc(caseParams, reqParams) { continue }`
AfterSkip(x) ==
  [ x EXCEPT !.si = x.si + 1 ]

\* One turn of the step loop up to the rate gate: the loop's end, the stop
\* check, GenReqParamsFunc and the reserved keys set on the map it returns
\* (req), ExecWhenFunc (execWhen is what it returns), HasKey.
ExecStepBegin(e) ==
  /\ ~crashed
  /\ UNCHANGED << worker, coordinator, GenReqParams, result >>
  /\ exec[e].pc = "step"
  /\ LET x == exec[e]
     IN IF x.si > Len(Teststeps) \/ ~IsRunning
        THEN exec' = SetExec(e, [ x EXCEPT !.pc = "outer" ])
        ELSE \E execWhen \in BOOLEAN :
               exec' = SetExec(e,
                 IF ~execWhen THEN AfterSkip(x)
                 ELSE [ x EXCEPT !.pc = IF HasKey(x.si) THEN "lock" ELSE "gate",
                                 !.req = ReqParams(GenReqParams, x.si,
                                                   CoroutineParams(e - 1)) ])
  /\ UNCHANGED << Teststeps, TearDown, Plugin, Info, IsRunning, ResChans,
                  MetricsChan, ActiveConcurrencyCount, rc, mc, Lock, QMap, Limter,
                  now, ramp, sched, stopPc, callTimeMap, lastTs, fold, ship,
                  crashed, mayPanic, hist >>

\* rpsQLimiter.Lock.Lock()
ExecLock(e) ==
  /\ ~crashed
  /\ UNCHANGED << worker, coordinator, GenReqParams, result >>
  /\ exec[e].pc = "lock"
  /\ Lock = << >>
  /\ Lock' = << "exec", e >>
  /\ exec' = SetExec(e, [ exec[e] EXCEPT !.pc = "add" ])
  /\ UNCHANGED << Teststeps, TearDown, Plugin, Info, IsRunning, ResChans,
                  MetricsChan, ActiveConcurrencyCount, rc, mc, QMap, Limter, now,
                  ramp, sched, stopPc, callTimeMap, lastTs, fold, ship, crashed,
                  mayPanic, hist >>

\* A bug: the executor receives from its channel with the mutex held.
AfterAdd_WaitLocked(x) ==
  [ x EXCEPT !.pc = "wait" ]

\* TestCase.Run: after the Add, `rpsQLimiter.Lock.Unlock()` and then `<-ch`.
AfterAdd(x) ==
  [ x EXCEPT !.pc = "unlock" ]

\* rpsQLimiter.QMap[ts.GetStepIndex()].Add(ch): the executor's one-shot
\* channel is named by the executor.
ExecAdd(e) ==
  /\ ~crashed
  /\ UNCHANGED << worker, coordinator, GenReqParams, result >>
  /\ exec[e].pc = "add"
  /\ QMap' = [ QMap EXCEPT ![exec[e].si] = Append(@, e) ]
  /\ exec' = SetExec(e, AfterAdd(exec[e]))
  /\ hist' = [ hist EXCEPT !.waiting[exec[e].si] = Append(@, e) ]
  /\ UNCHANGED << Teststeps, TearDown, Plugin, Info, IsRunning, ResChans,
                  MetricsChan, ActiveConcurrencyCount, rc, mc, Lock, Limter, now,
                  ramp, sched, stopPc, callTimeMap, lastTs, fold, ship, crashed,
                  mayPanic >>

\* rpsQLimiter.Lock.Unlock(); the executor then waits in `<-ch`.
ExecUnlock(e) ==
  /\ ~crashed
  /\ UNCHANGED << worker, coordinator, GenReqParams, result >>
  /\ exec[e].pc = "unlock"
  /\ Lock' = << >>
  /\ exec' = SetExec(e, [ exec[e] EXCEPT !.pc = "wait" ])
  /\ UNCHANGED << Teststeps, TearDown, Plugin, Info, IsRunning, ResChans,
                  MetricsChan, ActiveConcurrencyCount, rc, mc, QMap, Limter, now,
                  ramp, sched, stopPc, callTimeMap, lastTs, fold, ship, crashed,
                  mayPanic, hist >>

\* After the rate gate: `if !caseRunner.IsRunning { break }`.
ExecGateCheck(e) ==
  /\ ~crashed
  /\ UNCHANGED << worker, coordinator, GenReqParams, result >>
  /\ exec[e].pc = "gate"
  /\ exec' = SetExec(e, IF StopAfterGate(IsRunning)
                         THEN [ exec[e] EXCEPT !.pc = "outer", !.req = NoParams ]
                         ELSE [ exec[e] EXCEPT !.pc = "call" ])
  /\ UNCHANGED << Teststeps, TearDown, Plugin, Info, IsRunning, ResChans,
                  MetricsChan, ActiveConcurrencyCount, rc, mc, Lock, QMap, Limter,
                  now, ramp, sched, stopPc, callTimeMap, lastTs, fold, ship,
                  crashed, mayPanic, hist >>

\* ts.PreFunc, then ts.ReqPluginFunc, which returns a record of shape ret;
\* results is the list the loop over the reported records walks.
ExecCall(e) ==
  /\ ~crashed
  /\ UNCHANGED << worker, coordinator, GenReqParams, result >>
  /\ exec[e].pc = "call"
  /\ hist.nCalls < MaxCalls
  /\ \E ret \in Plugin :
       LET x == exec[e]
           res == PluginRecord(hist.nCalls + 1, x.si, ret, now)
       IN exec' = SetExec(e, [ x EXCEPT !.pc = "post", !.results = GetResults(res),
                                        !.ri = 1, !.ok = TRUE, !.k = Len(res.SubResults) ])
  /\ hist' = [ hist EXCEPT !.nCalls = @ + 1,
                           !.invoked[exec[e].si] = Append(@, now) ]
  /\ UNCHANGED << Teststeps, TearDown, Plugin, Info, IsRunning, ResChans,
                  MetricsChan, ActiveConcurrencyCount, rc, mc, Lock, QMap, Limter,
                  now, ramp, sched, stopPc, callTimeMap, lastTs, fold, ship,
                  crashed, mayPanic >>

\* For the record at ri: ts.PostFunc, `ok = result.IsSuccess() && ok`, and
\* `if output.ResChans != nil`.
ExecPost(e) ==
  /\ ~crashed
  /\ UNCHANGED << worker, coordinator, GenReqParams, result >>
  /\ exec[e].pc = "post"
  /\ LET x == exec[e]
         ok == x.results[x.ri].Success /\ x.ok
     IN exec' = SetExec(e,
          IF ResChans # "nil"
          THEN [ x EXCEPT !.ok = ok, !.pc = "send" ]
          ELSE AfterResult([ x EXCEPT !.ok = ok, !.skipped = @ \cup { x.ri } ]))
  /\ UNCHANGED << Teststeps, TearDown, Plugin, Info, IsRunning, ResChans,
                  MetricsChan, ActiveConcurrencyCount, rc, mc, Lock, QMap, Limter,
                  now, ramp, sched, stopPc, callTimeMap, lastTs, fold, ship,
                  crashed, mayPanic, hist >>

\* `output.ResChans <- result`: the channel operand is read from the field.
ExecSendEval(e) ==
  /\ ~crashed
  /\ UNCHANGED << worker, coordinator, GenReqParams, result >>
  /\ exec[e].pc = "send"
  /\ exec' = SetExec(e, [ exec[e] EXCEPT !.pc = "sending", !.ch = ResChans ])
  /\ UNCHANGED << Teststeps, TearDown, Plugin, Info, IsRunning, ResChans,
                  MetricsChan, ActiveConcurrencyCount, rc, mc, Lock, QMap, Limter,
                  now, ramp, sched, stopPc, callTimeMap, lastTs, fold, ship,
                  crashed, mayPanic, hist >>

\* The send itself: it blocks for ever on a nil channel, blocks while the
\* buffer is full, and panics on a closed channel.
ExecSending(e) ==
  /\ ~crashed
  /\ UNCHANGED << worker, coordinator, GenReqParams, result >>
  /\ exec[e].pc = "sending"
  /\ exec[e].ch = "rc"
  /\ LET x == exec[e]
     IN IF rc.closed
        THEN /\ crashed' = TRUE
             /\ hist' = [ hist EXCEPT !.sendOnClosed = TRUE ]
             /\ UNCHANGED << exec, rc >>
        ELSE /\ Len(rc.buf) < rc.cap
             /\ rc' = [ rc EXCEPT !.buf = Append(@, x.results[x.ri]) ]
             /\ exec' = SetExec(e, AfterResult(
                          [ x EXCEPT !.pushed = Append(@, x.results[x.ri]) ]))
             /\ hist' = [ hist EXCEPT !.pushedAll = @ \cup { x.results[x.ri] } ]
             /\ UNCHANGED crashed
  /\ UNCHANGED << Teststeps, TearDown, Plugin, Info, IsRunning, ResChans,
                  MetricsChan, ActiveConcurrencyCount, mc, Lock, QMap, Limter, now,
                  ramp, sched, stopPc, callTimeMap, lastTs, fold, ship, mayPanic >>

\* After the loops: `if tc.TearDown != nil { tc.TearDown(coroutineParams) }`.
ExecTearDown(e) ==
  /\ ~crashed
  /\ UNCHANGED << worker, coordinator, GenReqParams, result >>
  /\ exec[e].pc = "teardown"
  /\ exec' = SetExec(e, [ exec[e] EXCEPT !.pc = "done" ])
  /\ UNCHANGED << Teststeps, TearDown, Plugin, Info, IsRunning, ResChans,
                  MetricsChan, ActiveConcurrencyCount, rc, mc, Lock, QMap, Limter,
                  now, ramp, sched, stopPc, callTimeMap, lastTs, fold, ship,
                  crashed, mayPanic, hist >>

\* PreFunc, ReqPluginFunc or PostFunc panics: TestCase.Run and the goroutine
\* that runs it recover nothing, so the panic ends the process.
ExecCallbackPanic(e) ==
  /\ ~crashed
  /\ UNCHANGED << worker, coordinator, GenReqParams, result >>
  /\ mayPanic
  /\ exec[e].pc \in { "call", "post" }
  /\ crashed' = TRUE
  /\ hist' = [ hist EXCEPT !.callbackPanic = { e } ]
  /\ UNCHANGED << Teststeps, TearDown, Plugin, Info, IsRunning, ResChans,
                  MetricsChan, ActiveConcurrencyCount, rc, mc, Lock, QMap, Limter,
                  now, ramp, exec, sched, stopPc, callTimeMap, lastTs, fold, ship,
                  mayPanic >>

(* ------------------------------ ramp loop ----------------------------- *)
\* CaseRunner.Run: `rampingLimit := uint64(10000)`
DefaultRampingLimit == 10000

RECURSIVE WidenedSeconds(_, _, _)
\* CaseRunner.Run with RampingSeconds R > 0 and N >= 1 executors: the
\* seconds of the limiter's window, widened from d second by second until
\* N * d / R is positive.
WidenedSeconds(N, R, d) ==
  IF (N * d) \div R > 0 THEN d ELSE WidenedSeconds(N, R, d + 1)

\* CaseRunner.Run: rampingLimitDuration, in ticks (10 ms without ramping).
RampingLimitDuration(N, R) ==
  IF R > 0 THEN WidenedSeconds(N, R, 1) * TicksPerSecond
  ELSE TicksPerSecond \div 100

\* A bug: the limit is not taken from rampingSeconds.
RampingLimit_Unlimited(N, R) ==
  DefaultRampingLimit

\* CaseRunner.Run: rampingLimit.
RampingLimit(N, R) ==
  IF R > 0 THEN (N * WidenedSeconds(N, R, 1)) \div R
  ELSE DefaultRampingLimit

\* The times in q that lie within w ticks before t.
Within(q, t, w) ==
  SelectSeq(q, LAMBDA g : g > t - w)

\* rampingLimiter.ShouldAllow(1): an executor is admitted when fewer than
\* rampingLimit were admitted within the last rampingLimitDuration.
RampShouldAllow ==
  Len(ramp.grants) < RampingLimit(Info.MaxConcurrencyInThisWoker, Info.RampingSeconds)

\* A bug: the ramp loop does not read the stop flag after the limiter.
RampAbort_Missing(running) ==
  FALSE

\* CaseRunner.Run: `if !cr.IsRunning { return }` after the limiter.
RampAbort(running) ==
  ~running

\* int64(x) of a time.Duration, and the wrap-around of its arithmetic.
ToDuration(x) ==
  ((x + 2^(DurationBits - 1)) % (2^DurationBits)) - 2^(DurationBits - 1)

\* a / b of Go's signed integers, b > 0: the quotient is cut towards zero.
Quot(a, b) ==
  IF a >= 0 THEN a \div b ELSE -((-a) \div b)

\* A bug: the limit of a widened window is that of one second.
WidenedLimit_PerSecond(N, d, R) ==
  N \div R

\* CaseRunner.Run: `cr.Info.MaxConcurrencyInThisWoker *
\* uint64(rampingLimitDuration/time.Second) / cr.Info.RampingSeconds`
WidenedLimit(N, d, R) ==
  ToUInt64(N * ToUInt64(Quot(d, Second))) \div R

\* The ramp loop starts, or there is no executor to launch.
RampLoop ==
  IF Info.MaxConcurrencyInThisWoker > 0 THEN "wait" ELSE "done"

\* `rampingLimit := uint64(10000)`, `rampingLimitDuration :=
\* time.Millisecond * 10`, and with RampingSeconds > 0
\* `rampingLimitDuration = time.Second` and `rampingLimit =
\* MaxConcurrencyInThisWoker / RampingSeconds`.
ScheduleBegin ==
  /\ ~crashed
  /\ ramp.pc = "schedule"
  /\ ramp' = IF Info.RampingSeconds > 0
             THEN [ ramp EXCEPT !.pc = "widen", !.duration = Second,
                                !.limit = Info.MaxConcurrencyInThisWoker
                                            \div Info.RampingSeconds ]
             ELSE [ ramp EXCEPT !.pc = RampLoop, !.duration = Second \div 100,
                                !.limit = DefaultRampingLimit ]
  /\ UNCHANGED << Teststeps, TearDown, Plugin, Info, IsRunning, ResChans, MetricsChan,
                  ActiveConcurrencyCount, rc, mc, Lock, QMap, Limter, now, exec,
                  sched, stopPc, callTimeMap, lastTs, fold, ship, crashed,
                  mayPanic, hist, worker, coordinator, GenReqParams, result >>

\* One turn of the loop that widens the window: `if rampingLimit > 0
\* { break }`, else `rampingLimitDuration += time.Second` and the limit of
\* the widened window.
ScheduleWiden ==
  /\ ~crashed
  /\ ramp.pc = "widen"
  /\ ramp' = IF ramp.limit > 0
             THEN [ ramp EXCEPT !.pc = RampLoop ]
             ELSE LET d == ToDuration(ramp.duration + Second)
                  IN [ ramp EXCEPT !.duration = d,
                                   !.limit = WidenedLimit(Info.MaxConcurrencyInThisWoker,
                                                          d, Info.RampingSeconds) ]
  /\ UNCHANGED << Teststeps, TearDown, Plugin, Info, IsRunning, ResChans, MetricsChan,
                  ActiveConcurrencyCount, rc, mc, Lock, QMap, Limter, now, exec,
                  sched, stopPc, callTimeMap, lastTs, fold, ship, crashed,
                  mayPanic, hist, worker, coordinator, GenReqParams, result >>

\* `cr.Output = &Output{ ResChans: make(chan IResultV1, 1000) }`
RunMakeOutput ==
  /\ ~crashed
  /\ ramp.pc = "output"
  /\ ResChans' = "rc"
  /\ ramp' = [ ramp EXCEPT !.pc = "metrics" ]
  /\ UNCHANGED << Teststeps, TearDown, Plugin, Info, IsRunning, MetricsChan,
                  ActiveConcurrencyCount, rc, mc, Lock, QMap, Limter, now, exec,
                  sched, stopPc, callTimeMap, lastTs, fold, ship, crashed,
                  mayPanic, hist, worker, coordinator, GenReqParams, result >>

\* `cr.MetricsChan = make(chan ([]*CallTimeMetric), 1000)`; HandleOuput,
\* SendMetrics and the scheduler are started, and Run comes to the
\* computation of its ramp schedule.
RunMakeMetrics ==
  /\ ~crashed
  /\ ramp.pc = "metrics"
  /\ MetricsChan' = "mc"
  /\ ramp' = [ ramp EXCEPT !.pc = "schedule" ]
  /\ UNCHANGED << Teststeps, TearDown, Plugin, Info, IsRunning, ResChans,
                  ActiveConcurrencyCount, rc, mc, Lock, QMap, Limter, now, exec,
                  sched, stopPc, callTimeMap, lastTs, fold, ship, crashed,
                  mayPanic, hist, worker, coordinator, GenReqParams, result >>

\* CaseRunner.Run, the wait at rampingLimiter: the loop goes on when the
\* limiter admits the executor or, the limiter refusing, IsRunning is read
\* false (else it sleeps 25 ms and asks again). first and last are the
\* times of the first and of the latest admission; stopSeen, that the loop
\* has read IsRunning false.
RampWait ==
  /\ ~crashed
  /\ UNCHANGED << worker, coordinator, GenReqParams, result >>
  /\ ramp.pc = "wait"
  /\ RampShouldAllow \/ ~IsRunning
  /\ ramp' = IF RampShouldAllow
             THEN [ ramp EXCEPT !.pc = "check", !.grants = Append(@, now),
                                !.first = IF @ < 0 THEN now ELSE @, !.last = now ]
             ELSE [ ramp EXCEPT !.pc = "check", !.stopSeen = TRUE ]
  /\ UNCHANGED << Teststeps, TearDown, Plugin, Info, IsRunning, ResChans, MetricsChan,
                  ActiveConcurrencyCount, rc, mc, Lock, QMap, Limter, now, exec,
                  sched, stopPc, callTimeMap, lastTs, fold, ship, crashed,
                  mayPanic, hist >>

\* `if !cr.IsRunning { return }`, else coroutineParams is built and the
\* goroutine of executor i is started.
RampLaunch ==
  /\ ~crashed
  /\ UNCHANGED << worker, coordinator, GenReqParams, result >>
  /\ ramp.pc = "check"
  /\ IF RampAbort(IsRunning)
     THEN /\ ramp' = [ ramp EXCEPT !.pc = "done", !.stopSeen = ~IsRunning ]
          /\ UNCHANGED exec
     ELSE /\ ramp' = [ ramp EXCEPT !.pc = "count" ]
          /\ exec' = SetExec(ramp.i + 1, [ exec[ramp.i + 1] EXCEPT !.pc = "outer" ])
  /\ UNCHANGED << Teststeps, TearDown, Plugin, Info, IsRunning, ResChans, MetricsChan,
                  ActiveConcurrencyCount, rc, mc, Lock, QMap, Limter, now, sched,
                  stopPc, callTimeMap, lastTs, fold, ship, crashed, mayPanic, hist >>

\* A bug: the counter is set, not incremented.
CountAfterLaunch_Set(c) ==
  1

\* `cr.ActiveConcurrencyCount += 1`
CountAfterLaunch(c) ==
  c + 1

\* `cr.ActiveConcurrencyCount += 1`, and the loop's `i++` and
\* `i < int(cr.Info.MaxConcurrencyInThisWoker)`.
RampCount ==
  /\ ~crashed
  /\ UNCHANGED << worker, coordinator, GenReqParams, result >>
  /\ ramp.pc = "count"
  /\ ActiveConcurrencyCount' = CountAfterLaunch(ActiveConcurrencyCount)
  /\ ramp' = [ ramp EXCEPT !.i = ramp.i + 1,
                           !.pc = IF ramp.i + 1 < Info.MaxConcurrencyInThisWoker
                                  THEN "wait" ELSE "done" ]
  /\ UNCHANGED << Teststeps, TearDown, Plugin, Info, IsRunning, ResChans, MetricsChan,
                  rc, mc, Lock, QMap, Limter, now, exec, sched, stopPc, callTimeMap,
                  lastTs, fold, ship, crashed, mayPanic, hist >>

(* ------------------------- rate-gate scheduler ------------------------ *)
\* The steps that have a bucket and a queue (rps > 0 in CaseRunner.Run).
GateKeys ==
  { s \in DOMAIN Teststeps : HasKey(s) }

\* Limter.ShouldAllow(k, 1): a token is granted when fewer than rps tokens
\* were granted for k within the last second.
ShouldAllow(k) ==
  Len(Limter[k]) < Teststeps[k].rps

\* A bug: a waiter is released whatever the bucket answered.
ReleaseWaiter_Always(aw, running) ==
  TRUE

\* The scheduler's `if aw || !cr.IsRunning`.
ReleaseWaiter(aw, running) ==
  aw \/ ~running

\* The scheduler's `if v.Length() > 0`.
NonEmpty(q) ==
  Len(q) > 0

\* One queue of the scan: `v.Length() > 0` (read without the lock), then
\* ShouldAllow and the release condition; or the end of a pass, after which
\* the scheduler sleeps 10 ms if nothing was released. sched.req is what
\* this turn of the loop got from the bucket, for the step sched.k;
\* hist.granted counts the tokens granted for each step.
SchedScan ==
  /\ ~crashed
  /\ UNCHANGED << worker, coordinator, GenReqParams, result >>
  /\ sched.pc = "scan"
  /\ IF sched.todo = {}
     THEN /\ GateKeys # {}
          /\ sched' = [ sched EXCEPT !.todo = GateKeys, !.isHit = FALSE,
                                     !.req = "none" ]
          /\ UNCHANGED << Limter, hist >>
     ELSE \E k \in sched.todo :
            IF ~NonEmpty(QMap[k])
            THEN /\ sched' = [ sched EXCEPT !.todo = @ \ { k }, !.k = k,
                                            !.req = "none" ]
                 /\ UNCHANGED << Limter, hist >>
            ELSE LET aw == ShouldAllow(k)
                     req == IF aw THEN "granted" ELSE "denied"
                 IN /\ Limter' = IF aw THEN [ Limter EXCEPT ![k] = Append(@, now) ]
                                 ELSE Limter
                    /\ hist' = IF aw THEN [ hist EXCEPT !.granted[k] = @ + 1 ]
                               ELSE hist
                    /\ sched' = IF ReleaseWaiter(aw, IsRunning)
                                THEN [ sched EXCEPT !.pc = "lock", !.k = k,
                                                    !.req = req ]
                                ELSE [ sched EXCEPT !.todo = @ \ { k }, !.k = k,
                                                    !.req = req ]
  /\ UNCHANGED << Teststeps, TearDown, Plugin, Info, IsRunning, ResChans, MetricsChan,
                  ActiveConcurrencyCount, rc, mc, Lock, QMap, now, ramp, exec,
                  stopPc, callTimeMap, lastTs, fold, ship, crashed, mayPanic >>

\* A bug: the waiter taken from the queue is the newest.
Dequeued_Newest(q) ==
  [ ch |-> q[Len(q)], rest |-> SubSeq(q, 1, Len(q) - 1) ]

\* `ch := (v.Remove()).(chan bool)`: the waiter at the front of the queue,
\* and the queue without it.
Dequeued(q) ==
  [ ch |-> Head(q), rest |-> Tail(q) ]

\* rql.Lock.Lock(); ch := v.Remove()
SchedLock ==
  /\ ~crashed
  /\ UNCHANGED << worker, coordinator, GenReqParams, result >>
  /\ sched.pc = "lock"
  /\ Lock = << >>
  /\ Lock' = << "sched" >>
  /\ sched' = [ sched EXCEPT !.pc = "signal", !.ch = Dequeued(QMap[sched.k]).ch ]
  /\ QMap' = [ QMap EXCEPT ![sched.k] = Dequeued(@).rest ]
  /\ UNCHANGED << Teststeps, TearDown, Plugin, Info, IsRunning, ResChans, MetricsChan,
                  ActiveConcurrencyCount, rc, mc, Limter, now, ramp, exec,
                  stopPc, callTimeMap, lastTs, fold, ship, crashed, mayPanic, hist >>

\* `ch <- true` on the unbuffered channel meets the executor's `<-ch`
\* (hist.released counts the waiters released for each step while the
\* case runs).
SchedSignal ==
  /\ ~crashed
  /\ UNCHANGED << worker, coordinator, GenReqParams, result >>
  /\ sched.pc = "signal"
  /\ exec[sched.ch].pc = "wait"
  /\ exec' = SetExec(sched.ch, [ exec[sched.ch] EXCEPT !.pc = "gate",
                                                         !.stopReleased = ~IsRunning ])
  /\ sched' = [ sched EXCEPT !.pc = "unlock" ]
  /\ hist' = [ hist EXCEPT !.waiting[sched.k] = SelectSeq(@, LAMBDA w : w # sched.ch),
                           !.released[sched.k] = IF IsRunning THEN @ + 1 ELSE @ ]
  /\ UNCHANGED << Teststeps, TearDown, Plugin, Info, IsRunning, ResChans, MetricsChan,
                  ActiveConcurrencyCount, rc, mc, Lock, QMap, Limter, now, ramp,
                  stopPc, callTimeMap, lastTs, fold, ship, crashed, mayPanic >>

\* rql.Lock.Unlock(); isHit = true
SchedUnlock ==
  /\ ~crashed
  /\ UNCHANGED << worker, coordinator, GenReqParams, result >>
  /\ sched.pc = "unlock"
  /\ Lock' = << >>
  /\ sched' = [ sched EXCEPT !.pc = "scan", !.isHit = TRUE, !.todo = @ \ { sched.k },
                             !.req = "none" ]
  /\ UNCHANGED << Teststeps, TearDown, Plugin, Info, IsRunning, ResChans, MetricsChan,
                  ActiveConcurrencyCount, rc, mc, QMap, Limter, now, ramp, exec,
                  stopPc, callTimeMap, lastTs, fold, ship, crashed, mayPanic, hist >>

(* --------------------------- stop procedure --------------------------- *)
\* StopRunChannel: cr.IsRunning = false, then `rc := cr.Output.ResChans`,
\* which panics while cr.Output is nil (RealRun recovers the panic and the
\* procedure is over), and `mc := cr.MetricsChan` (hist.stopMc remembers
\* it; rc is the channel Run made, since Output is made with it), then the
\* 6 s sleep.
StopSetFlag ==
  /\ ~crashed
  /\ UNCHANGED << worker, coordinator, GenReqParams, result >>
  /\ stopPc = "idle"
  /\ IsRunning' = FALSE
  /\ stopPc' = IF ResChans = "noOutput" THEN "panicked" ELSE "detachOutput"
  /\ hist' = [ hist EXCEPT !.stopAt = now, !.stopMc = MetricsChan ]
  /\ UNCHANGED << Teststeps, TearDown, Plugin, Info, ResChans, MetricsChan,
                  ActiveConcurrencyCount, rc, mc, Lock, QMap, Limter, now, ramp,
                  exec, sched, callTimeMap, lastTs, fold, ship, crashed, mayPanic >>

\* cr.Output.ResChans = nil, then the 5 s sleep.
StopDetachOutput ==
  /\ ~crashed
  /\ UNCHANGED << worker, coordinator, GenReqParams, result >>
  /\ stopPc = "detachOutput"
  /\ ResChans' = "nil"
  /\ stopPc' = "closeOutput"
  /\ UNCHANGED << Teststeps, TearDown, Plugin, Info, IsRunning, MetricsChan,
                  ActiveConcurrencyCount, rc, mc, Lock, QMap, Limter, now, ramp,
                  exec, sched, callTimeMap, lastTs, fold, ship, crashed,
                  mayPanic, hist >>

\* close(rc), then the 2 s sleep.
StopCloseOutput ==
  /\ ~crashed
  /\ UNCHANGED << worker, coordinator, GenReqParams, result >>
  /\ stopPc = "closeOutput"
  /\ rc' = [ rc EXCEPT !.closed = TRUE ]
  /\ stopPc' = "detachMetrics"
  /\ UNCHANGED << Teststeps, TearDown, Plugin, Info, IsRunning, ResChans, MetricsChan,
                  ActiveConcurrencyCount, mc, Lock, QMap, Limter, now, ramp,
                  exec, sched, callTimeMap, lastTs, fold, ship, crashed,
                  mayPanic, hist >>

\* cr.MetricsChan = nil, then the 3 s sleep.
StopDetachMetrics ==
  /\ ~crashed
  /\ UNCHANGED << worker, coordinator, GenReqParams, result >>
  /\ stopPc = "detachMetrics"
  /\ MetricsChan' = "nil"
  /\ stopPc' = "closeMetrics"
  /\ UNCHANGED << Teststeps, TearDown, Plugin, Info, IsRunning, ResChans,
                  ActiveConcurrencyCount, rc, mc, Lock, QMap, Limter, now, ramp,
                  exec, sched, callTimeMap, lastTs, fold, ship, crashed,
                  mayPanic, hist >>

\* close(mc): the close of a nil channel panics, and RealRun recovers.
StopCloseMetrics ==
  /\ ~crashed
  /\ UNCHANGED << worker, coordinator, GenReqParams, result >>
  /\ stopPc = "closeMetrics"
  /\ mc' = IF hist.stopMc = "nil" THEN mc ELSE [ mc EXCEPT !.closed = TRUE ]
  /\ stopPc' = IF hist.stopMc = "nil" THEN "panicked" ELSE "done"
  /\ UNCHANGED << Teststeps, TearDown, Plugin, Info, IsRunning, ResChans, MetricsChan,
                  ActiveConcurrencyCount, rc, Lock, QMap, Limter, now, ramp,
                  exec, sched, callTimeMap, lastTs, fold, ship, crashed,
                  mayPanic, hist >>

(* -------------------------------- clock ------------------------------- *)
\* The times in q that lie within one second before t.
InWindow(q, t) ==
  SelectSeq(q, LAMBDA g : g > t - TicksPerSecond)

\* Time passes by one tick, up to the time max; a grant older than one
\* second leaves the rate gate's window, an admission older than
\* rampingLimitDuration the ramp limiter's.
Elapse(max) ==
  /\ ~crashed
  /\ UNCHANGED << worker, coordinator, GenReqParams, result >>
  /\ now < max
  /\ now' = now + 1
  /\ Limter' = [ k \in DOMAIN Limter |-> InWindow(Limter[k], now + 1) ]
  /\ ramp' = [ ramp EXCEPT !.grants =
                 Within(@, now + 1, RampingLimitDuration(Info.MaxConcurrencyInThisWoker,
                                                         Info.RampingSeconds)) ]
  /\ hist' = [ hist EXCEPT !.invoked = [ k \in DOMAIN @ |-> InWindow(@[k], now + 1) ] ]
  /\ UNCHANGED << Teststeps, TearDown, Plugin, Info, IsRunning, ResChans, MetricsChan,
                  ActiveConcurrencyCount, rc, mc, Lock, QMap, exec, sched,
                  stopPc, callTimeMap, lastTs, fold, ship, crashed, mayPanic >>

\* Time passes by one tick.
Tick ==
  Elapse(MaxTime)

\* Time passes by one tick, over the minutes of a longer run.
TickMinute ==
  Elapse(MaxMinutes * TicksPerMinute)

(* ------------------------------ aggregator ---------------------------- *)
\* The four CallTimeMapKey values HandleOuput builds for a record (Ts 0;
\* WorkerName and CaseName are the same in every key of a run). The step
\* name "_NONE_" of the whole-case keys is written << 0, 0 >>, the name of
\* no step.
KeysOf(res) ==
  { [ MetricName |-> m, IsWholeCase |-> w,
      StepName |-> IF w THEN << 0, 0 >> ELSE res.Name,
      Success |-> res.Success, StatusCode |-> res.ResponseCode, Ts |-> 0 ] :
    m \in { "step_call", "step_call_integral" }, w \in BOOLEAN }

\* The sample a record adds to a sketch: the sketch is the collection of
\* its samples, and the sample is named by its record.
SampleOf(res) ==
  << res.call, res.sub >>

\* A bug: every key gets a new sketch, the one in the map is dropped.
AddSample_NewSketch(m, res) ==
  [ k \in DOMAIN m \cup KeysOf(res) |->
      IF k \in KeysOf(res) THEN { SampleOf(res) } ELSE m[k] ]

\* `v := callTimeMap[key]; if v == nil { v = tdigest.New() }; v.Add(...)`
\* for each of the record's keys.
AddSample(m, res) ==
  [ k \in DOMAIN m \cup KeysOf(res) |->
      IF k \in KeysOf(res)
      THEN (IF k \in DOMAIN m THEN m[k] ELSE {}) \cup { SampleOf(res) }
      ELSE m[k] ]

\* A bug: the minute rollover deletes the integral sketches too.
KeptAtRollover_None(k) ==
  FALSE

\* A bug: the rollover deletes no sketch.
KeptAtRollover_All(k) ==
  TRUE

\* A bug: the rollover keeps the integral sketches of the whole case only.
KeptAtRollover_WholeCase(k) ==
  k.MetricName = "step_call_integral" /\ k.IsWholeCase

\* The rollover keeps a sketch when
\* strings.HasSuffix(k.MetricName, "_integral").
KeptAtRollover(k) ==
  k.MetricName = "step_call_integral"

\* metrics: one CallTimeMetric per sketch of m, its key stamped with ts.
MetricsOf(m, ts) ==
  { [ Key |-> [ k EXCEPT !.Ts = ts ], Value |-> m[k] ] : k \in DOMAIN m }

\* A bug: the final flush is stamped with lastTs.
FinalTs_Last(t, last) ==
  last

\* HandleOuput after the channel is closed: nowts, the current minute.
FinalTs(t, last) ==
  MinuteOf(t)

\* A bug: the rollover batch is stamped with the new minute.
RolloverTs_New(ts, last) ==
  ts

\* The rollover: `outKey.Ts = lastTs`.
RolloverTs(ts, last) ==
  last

\* `for res := range cr.Output.ResChans`: a record is received; at a new
\* minute the sketches are emitted with lastTs and the non-integral ones
\* deleted, and the batch, when not empty, is to be sent before the record
\* is folded.
FoldRecv ==
  /\ ~crashed
  /\ UNCHANGED << worker, coordinator, GenReqParams, result >>
  /\ fold.pc = "recv"
  /\ Len(rc.buf) > 0
  /\ LET res == Head(rc.buf)
         ts == MinuteOf(now)
         metrics == MetricsOf(callTimeMap, RolloverTs(ts, lastTs))
         kept == [ k \in { j \in DOMAIN callTimeMap : KeptAtRollover(j) } |-> callTimeMap[k] ]
     IN /\ rc' = [ rc EXCEPT !.buf = Tail(@) ]
        /\ IF lastTs # ts /\ metrics # {}
           THEN /\ fold' = [ fold EXCEPT !.pc = "emit", !.res = << res >>, !.ts = ts,
                                         !.metrics = metrics, !.final = FALSE ]
                /\ callTimeMap' = kept
                /\ UNCHANGED << lastTs, hist >>
           ELSE /\ callTimeMap' = AddSample(callTimeMap, res)
                /\ lastTs' = ts
                /\ hist' = [ hist EXCEPT !.folded = @ \cup { [ res |-> res, at |-> ts ] } ]
                /\ UNCHANGED fold
  /\ UNCHANGED << Teststeps, TearDown, Plugin, Info, IsRunning, ResChans, MetricsChan,
                  ActiveConcurrencyCount, mc, Lock, QMap, Limter, now, ramp, exec,
                  sched, stopPc, ship, crashed, mayPanic >>

\* The range loop ends when the channel is closed and empty: every sketch
\* is emitted with the current minute and deleted.
FoldFinal ==
  /\ ~crashed
  /\ UNCHANGED << worker, coordinator, GenReqParams, result >>
  /\ fold.pc = "recv"
  /\ Len(rc.buf) = 0
  /\ rc.closed
  /\ LET metrics == MetricsOf(callTimeMap, FinalTs(now, lastTs))
     IN /\ fold' = [ fold EXCEPT !.pc = IF metrics # {} THEN "emit" ELSE "done",
                                 !.metrics = metrics, !.final = TRUE ]
        /\ hist' = [ hist EXCEPT !.flushAt = << now >> ]
  /\ callTimeMap' = << >>
  /\ UNCHANGED << Teststeps, TearDown, Plugin, Info, IsRunning, ResChans, MetricsChan,
                  ActiveConcurrencyCount, rc, mc, Lock, QMap, Limter, now, ramp,
                  exec, sched, stopPc, lastTs, ship, crashed, mayPanic >>

\* `cr.MetricsChan <- metrics`: the channel operand is read from the field.
FoldEmitEval ==
  /\ ~crashed
  /\ UNCHANGED << worker, coordinator, GenReqParams, result >>
  /\ fold.pc = "emit"
  /\ fold' = [ fold EXCEPT !.pc = "emitting", !.ch = MetricsChan ]
  /\ UNCHANGED << Teststeps, TearDown, Plugin, Info, IsRunning, ResChans, MetricsChan,
                  ActiveConcurrencyCount, rc, mc, Lock, QMap, Limter, now, ramp,
                  exec, sched, stopPc, callTimeMap, lastTs, ship, crashed,
                  mayPanic, hist >>

\* The send itself (it blocks for ever on a nil channel and panics on a
\* closed one); after a rollover's send, `lastTs = ts` and the record is
\* folded into its four sketches; after the final send HandleOuput returns.
FoldEmitSend ==
  /\ ~crashed
  /\ UNCHANGED << worker, coordinator, GenReqParams, result >>
  /\ fold.pc = "emitting"
  /\ fold.ch = "mc"
  /\ IF mc.closed
     THEN /\ crashed' = TRUE
          /\ hist' = [ hist EXCEPT !.sendOnClosed = TRUE ]
          /\ UNCHANGED << mc, fold, callTimeMap, lastTs >>
     ELSE /\ Len(mc.buf) < mc.cap
          /\ mc' = [ mc EXCEPT !.buf = Append(@, fold.metrics) ]
          /\ IF fold.final
             THEN /\ fold' = [ fold EXCEPT !.pc = "done" ]
                  /\ UNCHANGED << callTimeMap, lastTs, hist >>
             ELSE /\ fold' = [ fold EXCEPT !.pc = "recv", !.metrics = {}, !.res = << >> ]
                  /\ callTimeMap' = AddSample(callTimeMap, fold.res[1])
                  /\ lastTs' = fold.ts
                  /\ hist' = [ hist EXCEPT !.folded = @ \cup
                                 { [ res |-> fold.res[1], at |-> fold.ts ] } ]
          /\ UNCHANGED crashed
  /\ UNCHANGED << Teststeps, TearDown, Plugin, Info, IsRunning, ResChans, MetricsChan,
                  ActiveConcurrencyCount, rc, Lock, QMap, Limter, now, ramp,
                  exec, sched, stopPc, ship, mayPanic >>

\* SendMetrics: a batch is received from the metrics channel and posted
\* (an error of the POST is printed and dropped).
ShipRecv ==
  /\ ~crashed
  /\ UNCHANGED << worker, coordinator, GenReqParams, result >>
  /\ ship.pc = "recv"
  /\ Len(mc.buf) > 0
  /\ mc' = [ mc EXCEPT !.buf = Tail(@) ]
  /\ hist' = [ hist EXCEPT !.posted = Append(@, Head(mc.buf)) ]
  /\ UNCHANGED << Teststeps, TearDown, Plugin, Info, IsRunning, ResChans, MetricsChan,
                  ActiveConcurrencyCount, rc, Lock, QMap, Limter, now, ramp,
                  exec, sched, stopPc, callTimeMap, lastTs, fold, ship, crashed,
                  mayPanic >>

\* SendMetrics returns when the metrics channel is closed and empty.
ShipDone ==
  /\ ~crashed
  /\ UNCHANGED << worker, coordinator, GenReqParams, result >>
  /\ ship.pc = "recv"
  /\ Len(mc.buf) = 0
  /\ mc.closed
  /\ ship' = [ ship EXCEPT !.pc = "done" ]
  /\ UNCHANGED << Teststeps, TearDown, Plugin, Info, IsRunning, ResChans, MetricsChan,
                  ActiveConcurrencyCount, rc, mc, Lock, QMap, Limter, now, ramp,
                  exec, sched, stopPc, callTimeMap, lastTs, fold, crashed,
                  mayPanic, hist >>

(* ---------------------------- worker runner --------------------------- *)
\* A bug: the worker index is counted from one.
Remaining_FromOne(T, C, widx) ==
  ToInt64(ToInt64(T) - ToInt64(ToInt64(C) * (widx + 1)))

\* RealRun: `remaining := rmc - workerConc*widx`, T and C being the
\* directive's totalMaxConcurrency and workerConcurrency.
Remaining(T, C, widx) ==
  ToInt64(ToInt64(T) - ToInt64(ToInt64(C) * widx))

\* A bug: the last worker's partial slice is not cut to what remains.
CurrentWorkerConcurrency_Uncut(T, C, widx) ==
  ToUInt64(ToInt64(C))

\* RealRun: currentWorkerConcurrency, computed once remaining > 0.
CurrentWorkerConcurrency(T, C, widx) ==
  IF Remaining(T, C, widx) < ToInt64(C)
  THEN ToUInt64(Remaining(T, C, widx))
  ELSE ToUInt64(ToInt64(C))

\* RealRun: `if remaining <= 0 { return }`
NothingToRun(T, C, widx) ==
  Remaining(T, C, widx) <= 0

\* RealRun: the executors the worker of index widx runs for the directive,
\* none when it returns before it instantiates a Case Runner.
WorkerSlice(T, C, widx) ==
  IF NothingToRun(T, C, widx) THEN 0 ELSE CurrentWorkerConcurrency(T, C, widx)

\* The names a case is registered or directed under: the empty string
\* and "c".
CaseNames ==
  { << >>, CaseName }

\* What the coordinator answers to a status push: the worker's index, the
\* two directives, and the name of the case (TestCaseInfo.BaseInfo.Name).
Responses ==
  [ Index : Int64, ShouldRunCase : BOOLEAN, ShouldStopCase : BOOLEAN,
    Name : CaseNames ]

\* PushStatus: `if tc.Name == runningCaseName` for each entry of
\* rw.Worker.BaseInfo.TestCases.
Summaries(testCases, runningCaseName, activeConcurrencyCount) ==
  [ i \in 1..Len(testCases) |->
      IF testCases[i].Name = runningCaseName
      THEN [ testCases[i] EXCEPT !.Status = "running",
                                 !.ActiveConcurrencyCount = activeConcurrencyCount ]
      ELSE [ testCases[i] EXCEPT !.Status = "idle", !.ActiveConcurrencyCount = 0 ] ]

\* PushStatus, up to the request: a reference to a runner that is not
\* running is dropped and the worker is idle again; then runningCaseName
\* and activeConcurrencyCount are taken from the runner referred to ("" and
\* 0 without one) and written to the entries of TestCases, which are the
\* payload of the request together with Status and Index.
PushStatus(w) ==
  LET w1 == IF w.RunningCaseRunner # 0 /\ ~w.runners[w.RunningCaseRunner].IsRunning
            THEN [ w EXCEPT !.RunningCaseRunner = 0, !.Status = "idle" ]
            ELSE w
      cr == w1.RunningCaseRunner
  IN [ w1 EXCEPT !.TestCases =
         Summaries(@, IF cr # 0 THEN w1.runners[cr].TestCase ELSE << >>,
                      IF cr # 0 THEN w1.runners[cr].ActiveConcurrencyCount ELSE 0) ]

\* A bug: a case that is not registered is started all the same.
UnknownCase_Ignored(w, name) ==
  FALSE

\* RealRun: `tc := rw.CaseMaps[...Name]; if tc == nil { return }`
UnknownCase(w, name) ==
  name \notin w.CaseMaps

\* RealRun on the response rsp, w being the worker after PushStatus: the
\* index is taken over; a start directive instantiates a Case Runner for
\* this worker's slice and starts a goroutine that will call Run on
\* rw.RunningCaseRunner; a stop directive calls StopRunChannel, which sets
\* IsRunning false, on the runner referred to (stopped keeps that it did).
\* unknownStart keeps that the response was a start directive naming a case
\* that is not registered.
Directed(w, rsp) ==
  LET T == coordinator.TotalMaxConcurrency
      C == coordinator.WorkerConcurrency
      w1 == [ w EXCEPT !.Index = rsp.Index,
                       !.unknownStart = rsp.ShouldRunCase /\ rsp.Name \notin w.CaseMaps ]
  IN IF rsp.ShouldRunCase
     THEN IF UnknownCase(w, rsp.Name) \/ NothingToRun(T, C, rsp.Index) THEN w1
          ELSE [ w1 EXCEPT
                   !.Status = "running",
                   !.runners = Append(@,
                      [ Info |-> [ MaxConcurrencyInThisWoker |->
                                     CurrentWorkerConcurrency(T, C, rsp.Index),
                                   WorkerIndex |-> ToUInt64(rsp.Index) ],
                        TestCase |-> rsp.Name, ActiveConcurrencyCount |-> 0,
                        IsRunning |-> FALSE, stopped |-> FALSE,
                        loops |-> << >>, ids |-> << >> ]),
                   !.RunningCaseRunner = Len(w.runners) + 1,
                   !.starting = @ + 1 ]
     ELSE IF rsp.ShouldStopCase /\ w1.RunningCaseRunner # 0
     THEN [ w1 EXCEPT !.runners[w1.RunningCaseRunner].IsRunning = FALSE,
                      !.runners[w1.RunningCaseRunner].stopped = TRUE ]
     ELSE w1

\* One turn of WorkerRunner.Run: RealRun with the coordinator answering
\* rsp to the status push.
RealRun(rsp) ==
  /\ ~crashed
  /\ Len(Directed(PushStatus(worker), rsp).runners) <= MaxRunners
  /\ worker' = Directed(PushStatus(worker), rsp)
  /\ UNCHANGED << Teststeps, TearDown, Plugin, Info, IsRunning, ResChans,
                  MetricsChan, ActiveConcurrencyCount, rc, mc, Lock, QMap, Limter,
                  now, ramp, exec, sched, stopPc, callTimeMap, lastTs, fold, ship,
                  crashed, mayPanic, hist, coordinator, GenReqParams, result >>

\* RealRun when the status push fails: PushStatus returns nil.
RealRunNoResponse ==
  /\ ~crashed
  /\ worker' = [ PushStatus(worker) EXCEPT !.unknownStart = FALSE ]
  /\ UNCHANGED << Teststeps, TearDown, Plugin, Info, IsRunning, ResChans,
                  MetricsChan, ActiveConcurrencyCount, rc, mc, Lock, QMap, Limter,
                  now, ramp, exec, sched, stopPc, callTimeMap, lastTs, fold, ship,
                  crashed, mayPanic, hist, coordinator, GenReqParams, result >>

\* The goroutine of a start directive runs: `rw.RunningCaseRunner.Run()`
\* reads the reference now; Run sets IsRunning true and the count of
\* executors 0 and comes to its ramp loop with i = 0 (loops holds the i of
\* every call of Run on the runner); on a nil reference it panics, which
\* nothing recovers.
RunnerStart ==
  /\ ~crashed
  /\ worker.starting > 0
  /\ IF worker.RunningCaseRunner = 0
     THEN /\ crashed' = TRUE
          /\ worker' = [ worker EXCEPT !.starting = @ - 1 ]
     ELSE /\ worker' = [ worker EXCEPT
                           !.starting = @ - 1,
                           !.runners[worker.RunningCaseRunner].IsRunning = TRUE,
                           !.runners[worker.RunningCaseRunner].ActiveConcurrencyCount = 0,
                           !.runners[worker.RunningCaseRunner].loops = Append(@, 0) ]
          /\ UNCHANGED crashed
  /\ UNCHANGED << Teststeps, TearDown, Plugin, Info, IsRunning, ResChans,
                  MetricsChan, ActiveConcurrencyCount, rc, mc, Lock, QMap, Limter,
                  now, ramp, exec, sched, stopPc, callTimeMap, lastTs, fold, ship,
                  mayPanic, hist, coordinator, GenReqParams, result >>

\* A ramp loop of the runner r, the one of the l-th call of Run on it,
\* launches the executor of index i and counts it:
\* `cr.ActiveConcurrencyCount += 1; i++` (ids keeps the indices launched;
\* the executors followed are MaxExec at most).
RunnerLaunch(r) ==
  /\ ~crashed
  /\ r \in 1..Len(worker.runners)
  /\ worker.runners[r].IsRunning
  /\ Len(worker.runners[r].ids) < MaxExec
  /\ \E l \in 1..Len(worker.runners[r].loops) :
       /\ worker.runners[r].loops[l] < worker.runners[r].Info.MaxConcurrencyInThisWoker
       /\ worker' = [ worker EXCEPT
                        !.runners[r].ActiveConcurrencyCount = CountAfterLaunch(@),
                        !.runners[r].ids = Append(@, worker.runners[r].loops[l]),
                        !.runners[r].loops[l] = @ + 1 ]
  /\ UNCHANGED << Teststeps, TearDown, Plugin, Info, IsRunning, ResChans,
                  MetricsChan, ActiveConcurrencyCount, rc, mc, Lock, QMap, Limter,
                  now, ramp, exec, sched, stopPc, callTimeMap, lastTs, fold, ship,
                  crashed, mayPanic, hist, coordinator, GenReqParams, result >>

\* A bug: a name is never found registered.
AlreadyExists_Never(w, name) ==
  FALSE

\* AddTestCase: `rw.CaseMaps[tc.Name] != nil`
AlreadyExists(w, name) ==
  name \in w.CaseMaps

\* AddTestCase of a case whose name is not registered: the case is put in
\* CaseMaps and an idle entry appended to TestCases.
Registered(w, name) ==
  [ w EXCEPT !.CaseMaps = @ \cup { name },
             !.TestCases = Append(@, [ Name |-> name, Status |-> "idle",
                                       ActiveConcurrencyCount |-> 0 ]) ]

\* AddTestCase: a name already registered panics, which ends the process
\* (refused keeps the name); else the case is registered.
AddTestCase(name) ==
  /\ ~crashed
  /\ IF AlreadyExists(worker, name)
     THEN /\ crashed' = TRUE
          /\ worker' = [ worker EXCEPT !.refused = << name >> ]
     ELSE /\ worker' = Registered(worker, name)
          /\ UNCHANGED crashed
  /\ UNCHANGED << Teststeps, TearDown, Plugin, Info, IsRunning, ResChans,
                  MetricsChan, ActiveConcurrencyCount, rc, mc, Lock, QMap, Limter,
                  now, ramp, exec, sched, stopPc, callTimeMap, lastTs, fold, ship,
                  mayPanic, hist, coordinator, GenReqParams, result >>

\* NewWorkerRunner: an idle worker without index and without cases;
\* runners are the Case Runners it has instantiated, starting the
\* goroutines not yet running.
NewWorkerRunner ==
  [ Index |-> -1, Status |-> "idle", RunningCaseRunner |-> 0,
    CaseMaps |-> {}, TestCases |-> << >>,
    runners |-> << >>, starting |-> 0, unknownStart |-> FALSE, refused |-> << >> ]

RECURSIVE RegisteredAll(_, _)
\* The worker w after AddTestCase of the cases named in names, in order.
RegisteredAll(w, names) ==
  IF names = << >> THEN w
  ELSE RegisteredAll(Registered(w, Head(names)), Tail(names))

\* A new worker on which the cases named in names are registered, under a
\* coordinator whose case has totalMaxConcurrency T and workerConcurrency C.
InitWorker(T, C, names) ==
  /\ worker = RegisteredAll(NewWorkerRunner, names)
  /\ coordinator = [ TotalMaxConcurrency |-> T, WorkerConcurrency |-> C ]

(* ------------------------------ the run ------------------------------- *)
\* The history of a run that has just started.
InitHist ==
  [ nCalls |-> 0, invoked |-> [ s \in StepIdx |-> << >> ],
    waiting |-> [ s \in StepIdx |-> << >> ], pushedAll |-> {},
    stopAt |-> -1, stopMc |-> "nil", flushAt |-> << >>, folded |-> {}, posted |-> << >>,
    sendOnClosed |-> FALSE, callbackPanic |-> {},
    granted |-> [ s \in StepIdx |-> 0 ], released |-> [ s \in StepIdx |-> 0 ] ]

\* The runner in CaseRunner.Run. With made: Run has set IsRunning, made
\* the channels (of capacity cap), started HandleOuput, SendMetrics and the
\* scheduler, and made a bucket and a queue for each rate-limited step; the
\* ramp loop is about to start. Without: Run has set IsRunning and the
\* count, and is about to make the channels. steps are the registered
\* steps, returns the shapes of record the plugins return, n the executors
\* to launch, panics whether a callback may panic, ramping the case's
\* rampingSeconds, gen the map the steps' GenReqParamsFunc returns.
InitRunAt(steps, returns, n, panics, cap, ramping, gen, made) ==
  /\ Teststeps = steps
  /\ TearDown = TRUE
  /\ Plugin = returns
  /\ Info = [ MaxConcurrencyInThisWoker |-> n, RampingSeconds |-> ramping,
              WorkerTotal |-> 1, WorkerIndex |-> 0, WorkerSize |-> n ]
  /\ IsRunning = TRUE
  /\ ResChans = IF made THEN "rc" ELSE "noOutput"
  /\ MetricsChan = IF made THEN "mc" ELSE "nil"
  /\ ActiveConcurrencyCount = 0
  /\ rc = [ buf |-> << >>, closed |-> FALSE, cap |-> cap ]
  /\ mc = [ buf |-> << >>, closed |-> FALSE, cap |-> cap ]
  /\ Lock = << >>
  /\ QMap = [ s \in { k \in DOMAIN steps : steps[k].rps > 0 } |-> << >> ]
  /\ Limter = [ s \in { k \in DOMAIN steps : steps[k].rps > 0 } |-> << >> ]
  /\ now = 0
  /\ ramp = [ pc |-> IF ~made THEN "output" ELSE IF n > 0 THEN "wait" ELSE "done",
              i |-> 0, grants |-> << >>, limit |-> 0, duration |-> 0,
              first |-> -1, last |-> -1, stopSeen |-> FALSE ]
  /\ exec = [ e \in Execs |-> [ pc |-> "idle", si |-> 0, results |-> << >>,
                                ri |-> 0, ok |-> TRUE, k |-> 0, ch |-> "nil",
                                pushed |-> << >>, skipped |-> {},
                                stopReleased |-> FALSE, req |-> NoParams ] ]
  /\ sched = [ pc |-> "scan", todo |-> {}, k |-> 0, ch |-> 0, isHit |-> FALSE,
               req |-> "none" ]
  /\ stopPc = "idle"
  /\ callTimeMap = << >>
  /\ lastTs = 0
  /\ fold = [ pc |-> "recv", res |-> << >>, ts |-> 0, metrics |-> {},
              final |-> FALSE, ch |-> "nil" ]
  /\ ship = [ pc |-> "recv" ]
  /\ crashed = FALSE
  /\ mayPanic = panics
  /\ GenReqParams = gen
  /\ hist = InitHist

\* The runner once CaseRunner.Run has set all up and comes to its ramp loop.
InitRun(steps, returns, n, panics, cap, ramping, gen) ==
  InitRunAt(steps, returns, n, panics, cap, ramping, gen, TRUE)

\* The steps a case may register: each with what its RpsLimitFunc returns
\* and its ContinueWhenFailed flag.
StepConfigs ==
  UNION { [ 1..n -> [ rps : 0..MaxRps, ContinueWhenFailed : BOOLEAN ] ] : n \in 1..NumSteps }

\* Plugins that attach no sub-record.
PlainReturns ==
  { r \in PluginReturns : Len(r.subs) = 0 }

\* Plugins that succeed and attach no sub-record.
OkReturns ==
  { r \in PlainReturns : r.parent.Success }

\* Plugins that attach no sub-record, or the most they may to a parent
\* that succeeds, and none to a sub-record.
FlatOrFullReturns ==
  { r \in PluginReturns :
      ~r.nested /\ (Len(r.subs) = 0 \/ (Len(r.subs) = MaxSub /\ r.parent.Success)) }

\* Plugins that attach one sub-record to a parent that succeeds, and a
\* sub-record to that sub-record.
NestedReturns ==
  { r \in PluginReturns : r.nested /\ Len(r.subs) = 1 /\ r.parent.Success }

\* A capacity of the channels at which no send of a run waits.
Roomy ==
  MaxCalls * (MaxSub + 1)

ExecNext(e) ==
  \/ ExecOuter(e)
  \/ ExecStepBegin(e)
  \/ ExecGateCheck(e)
  \/ ExecCall(e)
  \/ ExecPost(e)
  \/ ExecSendEval(e)
  \/ ExecSending(e)
  \/ ExecTearDown(e)

\* The executor while the case runs: all but the TearDown after its loops.
ExecRuns(e) ==
  \/ ExecOuter(e)
  \/ ExecStepBegin(e)
  \/ ExecGateCheck(e)
  \/ ExecCall(e)
  \/ ExecPost(e)
  \/ ExecSendEval(e)
  \/ ExecSending(e)

\* The executor's side of the rate gate.
ExecGateNext(e) ==
  \/ ExecLock(e)
  \/ ExecAdd(e)
  \/ ExecUnlock(e)

SchedNext ==
  \/ SchedScan
  \/ SchedLock
  \/ SchedSignal
  \/ SchedUnlock

StopNext ==
  \/ StopSetFlag
  \/ StopDetachOutput
  \/ StopCloseOutput
  \/ StopDetachMetrics
  \/ StopCloseMetrics

AggNext ==
  \/ FoldRecv
  \/ FoldFinal
  \/ FoldEmitEval
  \/ FoldEmitSend
  \/ ShipRecv
  \/ ShipDone

\* The rate gate: every executor of a case whose steps are all
\* rate-limited, the scheduler, the stop procedure and the clock. The
\* channels are roomy, so no executor waits for HandleOuput, which is left
\* out with SendMetrics: they write nothing the executors, the scheduler or
\* the stop procedure read.
Init ==
  \E steps \in { c \in StepConfigs : Len(c) = 1 /\ c[1].rps > 0 /\ ~c[1].ContinueWhenFailed } :
    /\ InitRun(steps, OkReturns, MaxExec, FALSE, Roomy, 0, NoParams)
    /\ InitWorker(MaxExec, MaxExec, << CaseName >>)
    /\ InitResult

Next ==
  \/ RampWait
  \/ RampLaunch
  \/ RampCount
  \/ \E e \in Execs : ExecNext(e)
  \/ \E e \in Execs : ExecGateNext(e)
  \/ SchedNext
  \/ StopNext
  \/ Tick

Spec ==
  Init /\ [][Next]_vars

\* The rate gate of a case of NumSteps rate-limited steps: every
\* executor, the scheduler and the stop procedure, with roomy channels as
\* above, within one window of the buckets (the clock stands still).
InitGate ==
  \E steps \in { c \in StepConfigs :
                   /\ Len(c) = NumSteps
                   /\ \A i \in DOMAIN c : c[i].rps > 0 /\ ~c[i].ContinueWhenFailed } :
    /\ InitRun(steps, OkReturns, MaxExec, FALSE, Roomy, 0, NoParams)
    /\ InitWorker(MaxExec, MaxExec, << CaseName >>)
    /\ InitResult

NextGate ==
  \/ RampWait
  \/ RampLaunch
  \/ RampCount
  \/ \E e \in Execs : ExecNext(e)
  \/ \E e \in Execs : ExecGateNext(e)
  \/ SchedNext
  \/ StopNext

SpecGate ==
  InitGate /\ [][NextGate]_vars

\* The start and the stop: CaseRunner.Run from its second statement on,
\* for a case of one step without rate limit, without ramp or with a ramp
\* of MaxRamp seconds, every executor, and the stop
\* procedure, which may come at any moment after Run has set IsRunning;
\* roomy channels as above.
InitStart ==
  \E steps \in { c \in StepConfigs : Len(c) = 1 /\ c[1].rps = 0 /\ c[1].ContinueWhenFailed },
     n \in 1..MaxExec, R \in { 0, MaxRamp } :
    /\ InitRunAt(steps, OkReturns, n, FALSE, Roomy, R, NoParams, FALSE)
    /\ InitWorker(n, n, << CaseName >>)
    /\ InitResult

NextStart ==
  \/ RunMakeOutput
  \/ RunMakeMetrics
  \/ ScheduleBegin
  \/ ScheduleWiden
  \/ RampWait
  \/ RampLaunch
  \/ RampCount
  \/ \E e \in Execs : ExecNext(e)
  \/ StopNext

SpecStart ==
  InitStart /\ [][NextStart]_vars

\* The whole runner: the ramp loop, every executor of a case of one step,
\* rate-limited or not, the scheduler, HandleOuput, SendMetrics, the stop
\* procedure and the clock, with roomy channels.
InitLive ==
  \E steps \in { c \in StepConfigs : Len(c) = 1 /\ ~c[1].ContinueWhenFailed } :
    /\ InitRun(steps, OkReturns, 1, FALSE, Roomy, 0, NoParams)
    /\ InitWorker(1, 1, << CaseName >>)
    /\ InitResult

NextLive ==
  \/ RampWait
  \/ RampLaunch
  \/ RampCount
  \/ \E e \in Execs : ExecNext(e)
  \/ \E e \in Execs : ExecGateNext(e)
  \/ SchedNext
  \/ StopNext
  \/ AggNext
  \/ Tick

\* The steps of the stop procedure after its first: once StopRunChannel is
\* called it runs on, being straight-line code with sleeps.
StopRunsOn ==
  \/ StopDetachOutput
  \/ StopCloseOutput
  \/ StopDetachMetrics
  \/ StopCloseMetrics

\* The Go scheduler runs every goroutine that can take a step, and time
\* passes; user callbacks and HTTP posts return, being steps of the
\* executors and of SendMetrics. Whether a stop directive comes is left
\* open.
FairLive ==
  /\ WF_vars(RampWait \/ RampLaunch \/ RampCount)
  /\ \A e \in Execs : WF_vars(ExecNext(e) \/ ExecGateNext(e))
  /\ WF_vars(SchedNext)
  /\ WF_vars(FoldRecv \/ FoldFinal \/ FoldEmitEval \/ FoldEmitSend)
  /\ WF_vars(ShipRecv \/ ShipDone)
  /\ WF_vars(StopRunsOn)
  /\ WF_vars(Tick)

SpecLive ==
  InitLive /\ [][NextLive]_vars /\ FairLive

\* The minute rollovers: one executor of a case of one step, HandleOuput
\* and SendMetrics over MaxMinutes minutes of a case that is not stopped.
InitFold ==
  \E steps \in { c \in StepConfigs : Len(c) = 1 /\ c[1].rps = 0 /\ c[1].ContinueWhenFailed } :
    /\ InitRun(steps, FlatOrFullReturns, 1, FALSE, ChanCap, 0, NoParams)
    /\ InitWorker(1, 1, << CaseName >>)
    /\ InitResult

NextFold ==
  \/ RampWait
  \/ RampLaunch
  \/ RampCount
  \/ \E e \in Execs : ExecRuns(e)
  \/ FoldRecv
  \/ FoldEmitEval
  \/ FoldEmitSend
  \/ ShipRecv
  \/ TickMinute

SpecFold ==
  InitFold /\ [][NextFold]_vars

\* The Go scheduler runs every goroutine of the rate gate that can take a
\* step. Whether a stop directive comes is left open.
FairGate ==
  /\ WF_vars(RampWait \/ RampLaunch \/ RampCount)
  /\ \A e \in Execs : WF_vars(ExecNext(e) \/ ExecGateNext(e))
  /\ WF_vars(SchedNext)
  /\ WF_vars(StopRunsOn)

\* The rate gate of a case of one rate-limited step under fair scheduling:
\* every executor, the scheduler and the stop procedure, within one window
\* of the bucket (the clock stands still).
SpecGateLive ==
  Init /\ [][NextGate]_vars /\ FairGate

\* The ramp schedule: CaseRunner.Run from its second statement to its ramp
\* loop, for every effectiveConcurrency N >= 1 and every rampingSeconds of
\* an IntBits-bit uint64.
InitSchedule ==
  \E steps \in { c \in StepConfigs : Len(c) = 1 /\ c[1].rps = 0 /\ c[1].ContinueWhenFailed },
     N \in UInt64 \ { 0 }, R \in UInt64 :
    /\ InitRunAt(steps, OkReturns, N, FALSE, Roomy, R, NoParams, FALSE)
    /\ InitWorker(N, N, << CaseName >>)
    /\ InitResult

NextSchedule ==
  \/ RunMakeOutput
  \/ RunMakeMetrics
  \/ ScheduleBegin
  \/ ScheduleWiden

SpecSchedule ==
  InitSchedule /\ [][NextSchedule]_vars

\* The step loop: every executor of a case without rate-limited steps
\* (the scheduler has no queue to scan), with callbacks that may panic,
\* and the stop procedure; roomy channels as above, and no clock, which
\* the step loop does not read. One executor runs plugins that attach
\* sub-records, to the record they return or to its sub-records; several
\* run plugins that attach none.
InitSteps ==
  \E steps \in { c \in StepConfigs : /\ Len(c) = NumSteps
                                      /\ \A i \in DOMAIN c : c[i].rps = 0
                                      /\ c[1].ContinueWhenFailed # c[NumSteps].ContinueWhenFailed },
     n \in 1..MaxExec :
    /\ InitRun(steps, IF n = 1 THEN FlatOrFullReturns \cup NestedReturns ELSE PlainReturns,
               n, TRUE, Roomy, 0, NoParams)
    /\ InitWorker(n, n, << CaseName >>)
    /\ InitResult

NextSteps ==
  \/ RampWait
  \/ RampLaunch
  \/ RampCount
  \/ \E e \in Execs : ExecNext(e)
  \/ \E e \in Execs : ExecCallbackPanic(e)
  \/ StopNext

SpecSteps ==
  InitSteps /\ [][NextSteps]_vars

\* The aggregator: the one executor of a single-step case without rate
\* limit, HandleOuput, SendMetrics, the stop procedure and the clock.
InitAgg ==
  \E steps \in { c \in StepConfigs : Len(c) = 1 /\ c[1].rps = 0 /\ c[1].ContinueWhenFailed } :
    /\ InitRun(steps, FlatOrFullReturns, 1, FALSE, ChanCap, 0, NoParams)
    /\ InitWorker(1, 1, << CaseName >>)
    /\ InitResult

NextAgg ==
  \/ RampWait
  \/ RampLaunch
  \/ RampCount
  \/ \E e \in Execs : ExecNext(e)
  \/ StopNext
  \/ AggNext
  \/ Tick

SpecAgg ==
  InitAgg /\ [][NextAgg]_vars

\* The ramp: a case with rampingSeconds > 0 whose one step has no rate
\* limit: the ramp loop and its limiter, every executor, the stop procedure
\* and the clock; roomy channels as above. The steps' GenReqParamsFunc
\* returns any of the maps of GenReturns.
InitRamp ==
  \E steps \in { c \in StepConfigs : Len(c) = 1 /\ c[1].rps = 0 /\ c[1].ContinueWhenFailed },
     R \in 1..MaxRamp, gen \in GenReturns :
    /\ InitRun(steps, OkReturns, MaxExec, FALSE, Roomy, R, gen)
    /\ InitWorker(MaxExec, MaxExec, << CaseName >>)
    /\ InitResult

NextRamp ==
  \/ RampWait
  \/ RampLaunch
  \/ RampCount
  \/ \E e \in Execs : ExecNext(e)
  \/ StopNext
  \/ Tick

SpecRamp ==
  InitRamp /\ [][NextRamp]_vars

\* The worker: the status loop of one WorkerRunner under every answer of
\* the coordinator, for every totalMaxConcurrency and workerConcurrency
\* of the case; of the Case Runners it starts only IsRunning is followed.
InitWorkerRunner ==
  \E steps \in { c \in StepConfigs : Len(c) = 1 /\ c[1].rps = 0 /\ c[1].ContinueWhenFailed },
     T \in UInt64, C \in UInt64 :
    /\ InitRun(steps, OkReturns, 0, FALSE, Roomy, 0, NoParams)
    /\ InitWorker(T, C, << CaseName >>)
    /\ InitResult

NextWorker ==
  \/ \E rsp \in Responses : RealRun(rsp)
  \/ RealRunNoResponse
  \/ RunnerStart

SpecWorker ==
  InitWorkerRunner /\ [][NextWorker]_vars

\* The answers of a coordinator that gives the worker index 0 or 1.
PollResponses ==
  { rsp \in Responses : rsp.Index \in 0..1 }

\* The registry and the status push: a new worker on which cases are
\* registered at any moment, under the answers of PollResponses for a
\* case of MaxExec executors on one worker; of the Case Runners started,
\* IsRunning and the count of executors are followed.
InitPoll ==
  \E steps \in { c \in StepConfigs : Len(c) = 1 /\ c[1].rps = 0 /\ c[1].ContinueWhenFailed } :
    /\ InitRun(steps, OkReturns, 0, FALSE, Roomy, 0, NoParams)
    /\ InitWorker(MaxExec, MaxExec, << >>)
    /\ InitResult

NextPoll ==
  \/ \E name \in CaseNames : AddTestCase(name)
  \/ \E rsp \in PollResponses : RealRun(rsp)
  \/ RealRunNoResponse
  \/ RunnerStart
  \/ \E r \in 1..MaxRunners : RunnerLaunch(r)

SpecPoll ==
  InitPoll /\ [][NextPoll]_vars

\* A plugin at work on the record it has acquired: Begin, End and the
\* assignments of ResponseCode and Success in any order and number, while
\* time passes; no case runs.
InitPlugin ==
  \E steps \in { c \in StepConfigs : Len(c) = 1 /\ c[1].rps = 0 /\ c[1].ContinueWhenFailed } :
    /\ InitRun(steps, OkReturns, 0, FALSE, Roomy, 0, NoParams)
    /\ InitWorker(0, 0, << CaseName >>)
    /\ InitResult

NextPlugin ==
  \/ ResultBegin
  \/ ResultSetResponseCode
  \/ ResultSetSuccess
  \/ ResultEnd
  \/ Tick

SpecPlugin ==
  InitPlugin /\ [][NextPlugin]_vars

(* ------------------------------- claims ------------------------------- *)
\* The folded records whose sample goes to the sketch of key k (Ts 0).
FoldedFor(k) ==
  { f \in hist.folded : k \in KeysOf(f.res) }

\* The key under which the map holds the sketch of the metric m.
MapKey(m) ==
  [ m.Key EXCEPT !.Ts = 0 ]

\* The minute in which the record of a folded sample ended.
EndMinute(s) ==
  MinuteOf((CHOOSE f \in hist.folded : SampleOf(f.res) = s).res.EndTime)

\* The batches SendMetrics has received, then those still in the channel.
Shipped ==
  hist.posted \o mc.buf

\* C1: for every step whose rpsLimit is L > 0, and every one-second window
\* while the case is running, the plugin invocations of the step, summed
\* over the executors, are at most L. (hist.invoked keeps the invocations
\* of the last second.)
C1_RateCap ==
  \A s \in DOMAIN Teststeps :
    (IsRunning /\ HasKey(s)) => Len(hist.invoked[s]) <= Teststeps[s].rps

\* A step of x's executor has reported a failure and does not continue
\* when failed.
InFailedStep(x) ==
  /\ x.pc \in { "post", "send", "sending" }
  /\ ~Teststeps[x.si].ContinueWhenFailed
  /\ \E i \in 1..Len(x.results) : ~x.results[i].Success

\* C2: in every iteration of every executor, once a record reported for a
\* step is a failure and the step has ContinueWhenFailed false, the
\* executor finishes that step's reported records and leaves the step loop
\* (no later step of the iteration begins), and every iteration begins at
\* the first step.
C2_FailureEndsIteration ==
  [][ \A e \in Execs :
        /\ InFailedStep(exec[e]) =>
             /\ exec'[e].si = exec[e].si
             /\ exec'[e].pc \in { "post", "send", "sending", "outer" }
        /\ (exec[e].pc = "outer" /\ exec'[e].pc = "step") => exec'[e].si = 1
        /\ (exec[e].pc = "outer" /\ exec'[e].pc # "outer") =>
             exec'[e].pc \in { "step", "teardown" } ]_vars

\* An executor has broken out of the step loop after a failure, before the
\* last step, while the case is running.
C2_Witness ==
  \E e \in Execs :
    /\ exec[e].pc = "outer"
    /\ IsRunning
    /\ exec[e].si \in 1..(Len(Teststeps) - 1)
    /\ ~exec[e].ok
    /\ ~Teststeps[exec[e].si].ContinueWhenFailed

C5_StopReleaseExits ==
  \A e \in Execs :
    exec[e].stopReleased =>
      /\ ~IsRunning
      /\ exec[e].pc \in { "gate", "outer", "teardown", "done" }
      /\ exec[e].results = << >>
      /\ exec[e].pushed = << >>

\* An executor released on stop has left both loops.
C5_Witness ==
  \E e \in Execs : exec[e].stopReleased /\ exec[e].pc = "done"

\* The run is over for the aggregator: the stop procedure is done,
\* SendMetrics has returned, and HandleOuput has returned or is blocked
\* for ever in a send on the detached (nil) metrics channel.
AggregatorAtRest ==
  /\ stopPc = "done"
  /\ ship.pc = "done"
  /\ ~crashed
  /\ \/ fold.pc = "done"
     \/ fold.pc = "emitting" /\ fold.ch = "nil"

\* C6: no record is lost: every record pushed onto the output channel is
\* folded into the sketches and is in a batch SendMetrics received.
C6_NoRecordLost ==
  AggregatorAtRest =>
    \A r \in hist.pushedAll :
      /\ \E f \in hist.folded : f.res = r
      /\ \E i \in 1..Len(hist.posted) :
           \E m \in hist.posted[i] : SampleOf(r) \in m.Value

C8_BatchCoverage ==
  fold.pc \in { "emit", "emitting" } =>
    \A m \in fold.metrics :
      /\ \A s \in m.Value : EndMinute(s) <= m.Key.Ts
      /\ lastTs <= m.Key.Ts
      /\ ~fold.final => m.Key.Ts = lastTs
      /\ m.Key.MetricName = "step_call_integral" =>
           m.Value = { SampleOf(f.res) : f \in FoldedFor(MapKey(m)) }
      /\ m.Key.MetricName = "step_call" =>
           m.Value = { SampleOf(f.res) : f \in { g \in FoldedFor(MapKey(m)) : g.at = lastTs } }

\* A batch is built with a sample whose record ended in an earlier minute
\* than the batch's.
C8_Witness ==
  /\ fold.pc = "emit"
  /\ \E m \in fold.metrics :
       /\ m.Key.MetricName = "step_call"
       /\ \E s \in m.Value : EndMinute(s) < m.Key.Ts

\* C8 (as stated): in every batch with ts = T, each non-integral sketch
\* covers only samples whose record ended in minute T, and each integral
\* sketch covers every sample of the run whose record ended in a minute
\* <= T.
C8_CoversEndMinute ==
  fold.pc \in { "emit", "emitting" } =>
    \A m \in fold.metrics :
      /\ m.Key.MetricName = "step_call" =>
           \A s \in m.Value : EndMinute(s) = m.Key.Ts
      /\ m.Key.MetricName = "step_call_integral" =>
           \A r \in hist.pushedAll :
             (MapKey(m) \in KeysOf(r) /\ MinuteOf(r.EndTime) <= m.Key.Ts) =>
               SampleOf(r) \in m.Value

\* C9: until the final flush, every integral sketch stays in the map with
\* all the samples folded since the case started (so its count never
\* decreases); at a rollover the non-integral sketches are in the batch
\* and no longer in the map.
C9_IntegralPersists ==
  ~fold.final =>
    /\ \A f \in hist.folded : \A k \in KeysOf(f.res) :
         k.MetricName = "step_call_integral" =>
           k \in DOMAIN callTimeMap /\ SampleOf(f.res) \in callTimeMap[k]
    /\ fold.pc \in { "emit", "emitting" } =>
         /\ \A k \in DOMAIN callTimeMap : k.MetricName = "step_call_integral"
         /\ \A f \in hist.folded : \A k \in KeysOf(f.res) :
              (k.MetricName = "step_call" /\ f.at = lastTs) =>
                \E m \in fold.metrics : MapKey(m) = k /\ SampleOf(f.res) \in m.Value

\* After a rollover the map holds records folded in two different
\* minutes.
C9_Witness ==
  /\ ~fold.final
  /\ fold.pc = "recv"
  /\ \E f, g \in hist.folded : f.at # g.at
  /\ \E k \in DOMAIN callTimeMap : Cardinality(callTimeMap[k]) = 2

\* C10: a panic of a plugin, PreFunc or PostFunc in one executor is
\* contained to that executor: it ends nothing else, so the process lives
\* on.
C10_PanicContained ==
  hist.callbackPanic # {} => ~crashed

\* C11: every launched executor invokes TearDown once, after it has seen
\* IsRunning false, and after the stop flag is set every launched executor
\* eventually reaches that invocation. Stated as the safety property the
\* second half implies: no launched executor is blocked for ever on its
\* way to TearDown, in a send on the detached (nil) output channel.
C11_TearDownReached ==
  \A e \in Execs :
    ~(exec[e].pc = "sending" /\ exec[e].ch = "nil")

\* The concurrency slice of worker i as the specification words it:
\* max(0, min(C, T - C*i)).
EffectiveConcurrency(T, C, i) ==
  LET least == IF C < T - C * i THEN C ELSE T - C * i
  IN IF least < 0 THEN 0 ELSE least

\* The worker index, totalMaxConcurrency and workerConcurrency of the
\* directive are non-negative int64 values and T - C*i is an int64 value.
WithinInt64(T, C, i) ==
  /\ T \in Int64
  /\ C \in Int64
  /\ i \in Int64
  /\ (T - C * i) \in Int64

\* C12 (within int64): for every totalMaxConcurrency T and
\* workerConcurrency C below 2^63 and every worker index i >= 0 with
\* T - C*i not below -2^63, the concurrency assigned to the Case Runner
\* the worker launches equals max(0, min(C, T - C*i)).
C12_SliceWithinInt64 ==
  \A r \in 1..Len(worker.runners) :
    LET info == worker.runners[r].Info
        T == coordinator.TotalMaxConcurrency
        C == coordinator.WorkerConcurrency
    IN WithinInt64(T, C, info.WorkerIndex) =>
         info.MaxConcurrencyInThisWoker = EffectiveConcurrency(T, C, info.WorkerIndex)

\* A worker that is not the first has launched a Case Runner for a slice
\* smaller than workerConcurrency: what remained of totalMaxConcurrency.
C12_Witness ==
  \E r \in 1..Len(worker.runners) :
    LET info == worker.runners[r].Info
    IN /\ WithinInt64(coordinator.TotalMaxConcurrency, coordinator.WorkerConcurrency,
                      info.WorkerIndex)
       /\ info.WorkerIndex >= 1
       /\ info.MaxConcurrencyInThisWoker >= 1
       /\ info.MaxConcurrencyInThisWoker < coordinator.WorkerConcurrency

\* C12 (as stated): for every totalMaxConcurrency T, workerConcurrency C
\* and worker index i >= 0, the concurrency assigned to the Case Runner the
\* worker launches equals max(0, min(C, T - C*i)).
C12_SliceForEveryInput ==
  \A r \in 1..Len(worker.runners) :
    LET info == worker.runners[r].Info
    IN info.WorkerIndex \in Int64 =>
         info.MaxConcurrencyInThisWoker =
           EffectiveConcurrency(coordinator.TotalMaxConcurrency,
                                coordinator.WorkerConcurrency, info.WorkerIndex)

\* The response is a start directive for a registered case, and the
\* concurrency slice RealRun computes for it is zero.
ZeroSliceStart(rsp) ==
  LET T == coordinator.TotalMaxConcurrency
      C == coordinator.WorkerConcurrency
  IN /\ rsp.ShouldRunCase
     /\ rsp.Name \in worker.CaseMaps
     /\ \/ NothingToRun(T, C, rsp.Index)
        \/ CurrentWorkerConcurrency(T, C, rsp.Index) = 0

\* C13: when the worker's computed concurrency slice for a start directive
\* is zero, the directive has no effect: no Case Runner is instantiated or
\* started, and the worker's status and running-runner reference are as
\* the status push left them.
C13_ZeroSliceNoEffect ==
  [][ \A rsp \in Responses :
        (ZeroSliceStart(rsp) /\ RealRun(rsp)) =>
          /\ worker'.runners = worker.runners
          /\ worker'.starting = worker.starting
          /\ worker'.Status = PushStatus(worker).Status
          /\ worker'.RunningCaseRunner = PushStatus(worker).RunningCaseRunner ]_vars

RECURSIVE SliceSum(_, _, _)
\* The sum of the slices of the workers i, i + 1, ... up to the first
\* worker whose slice is zero.
SliceSum(T, C, i) ==
  IF i \notin Int64 \/ WorkerSlice(T, C, i) = 0 THEN 0
  ELSE WorkerSlice(T, C, i) + SliceSum(T, C, i + 1)

\* C14 (for a positive workerConcurrency, within int64): for every
\* totalMaxConcurrency T < 2^63 and workerConcurrency C with
\* 1 <= C < 2^63, the slices of the workers 0, 1, 2, ... up to the first
\* whose slice is zero sum to T; and the Case Runner a worker launches runs
\* that worker's slice.
C14_SlicesSumToTotal ==
  LET T == coordinator.TotalMaxConcurrency
      C == coordinator.WorkerConcurrency
  IN (T \in Int64 /\ C \in Int64 /\ C >= 1) =>
       /\ SliceSum(T, C, 0) = T
       /\ \A r \in 1..Len(worker.runners) :
            LET info == worker.runners[r].Info
            IN info.WorkerIndex \in Int64 =>
                 info.MaxConcurrencyInThisWoker = WorkerSlice(T, C, info.WorkerIndex)

\* The worker that takes what is left of a total that is not a multiple
\* of workerConcurrency has launched its Case Runner.
C14_Witness ==
  LET T == coordinator.TotalMaxConcurrency
      C == coordinator.WorkerConcurrency
  IN /\ T \in Int64 /\ C \in Int64 /\ C >= 2
     /\ T > C /\ T % C # 0
     /\ \E r \in 1..Len(worker.runners) :
          /\ worker.runners[r].Info.WorkerIndex = T \div C
          /\ worker.runners[r].Info.MaxConcurrencyInThisWoker = T % C

\* C14 (as stated): for every T and C, the slices of the workers
\* 0, 1, 2, ... up to the first whose slice is zero sum to T.
C14_SlicesSumForEveryInput ==
  SliceSum(coordinator.TotalMaxConcurrency, coordinator.WorkerConcurrency, 0)
    = coordinator.TotalMaxConcurrency

\* C15: a worker runs at most one case at a time: whatever the coordinator
\* directs, at no moment do two Case Runners launched by the worker both
\* have IsRunning true.
C15_OneRunningRunner ==
  \A r1, r2 \in 1..Len(worker.runners) :
    (worker.runners[r1].IsRunning /\ worker.runners[r2].IsRunning) => r1 = r2

\* The executors launched so far: those whose goroutine was started.
Launched ==
  { e \in Execs : exec[e].pc # "idle" }

\* The counter is the number of executors launched, or one less while the
\* ramp loop is between the `go` statement and the increment; neither
\* exceeds the runner's concurrency.
CountLagsLaunches ==
  /\ ActiveConcurrencyCount <= Cardinality(Launched)
  /\ Cardinality(Launched) <= ActiveConcurrencyCount + 1
  /\ (Cardinality(Launched) = ActiveConcurrencyCount + 1) <=> (ramp.pc = "count")
  /\ Cardinality(Launched) <= Info.MaxConcurrencyInThisWoker

\* C18 (as the code has it): during a case run ActiveConcurrencyCount
\* never decreases and never exceeds the runner's concurrency N; it equals
\* the number of executors launched so far except between the start of an
\* executor's goroutine and the increment that follows it, where it is one
\* less.
C18_CountLagsLaunches ==
  [][ /\ CountLagsLaunches
      /\ CountLagsLaunches'
      /\ ActiveConcurrencyCount' >= ActiveConcurrencyCount ]_vars

\* The second executor is launched and the counter still says one.
C18_Witness ==
  /\ ramp.pc = "count"
  /\ ActiveConcurrencyCount = 1
  /\ Cardinality(Launched) = 2

\* C18 (as stated): during a case run ActiveConcurrencyCount equals the
\* number of executors launched so far and never exceeds N.
C18_CountEqualsLaunched ==
  /\ ActiveConcurrencyCount = Cardinality(Launched)
  /\ ActiveConcurrencyCount <= Info.MaxConcurrencyInThisWoker

\* The seconds of the window in which the ramp admits executors, for N
\* executors and R ramping seconds: 1 when N >= R, else R / N rounded up.
WindowSeconds(N, R) ==
  IF N >= R THEN 1 ELSE (R + N - 1) \div N

\* The executors the ramp admits in one window.
AdmittedPerWindow(N, R) ==
  (N * WindowSeconds(N, R)) \div R

\* The executors the ramp limiter has admitted so far.
Admitted ==
  ramp.i + (IF ramp.pc = "count" \/ (ramp.pc = "check" /\ ~ramp.stopSeen) THEN 1 ELSE 0)

C20_NoLaunchAfterStopSeen ==
  ramp.stopSeen =>
    /\ ~IsRunning
    /\ ramp.pc \in { "check", "done" }
    /\ ActiveConcurrencyCount = ramp.i
    /\ \A e \in Execs : e > ramp.i => exec[e].pc = "idle"

\* The ramp loop, refused by the limiter, has read IsRunning false and has
\* returned with an executor left unlaunched.
C20_Witness ==
  /\ ramp.stopSeen
  /\ ramp.pc = "done"
  /\ ramp.i >= 1
  /\ ramp.i < Info.MaxConcurrencyInThisWoker
  /\ ramp.last = ramp.first
  /\ ~RampShouldAllow

\* C17: within one rate-limited step, waiting executors are released in
\* the order in which they enqueued: the executor the scheduler is about
\* to signal is the one that enqueued first among those enqueued for the
\* step and not yet signalled (hist.waiting keeps them in enqueue order).
C17_ReleasedInEnqueueOrder ==
  sched.pc = "signal" =>
    /\ hist.waiting[sched.k] # << >>
    /\ sched.ch = Head(hist.waiting[sched.k])

\* Two executors have enqueued for the step and the scheduler is about to
\* signal one of them.
C17_Witness ==
  /\ sched.pc = "signal"
  /\ Len(hist.waiting[sched.k]) = 2
  /\ \A e \in Execs : exec[e].pc = "wait"

\* The string is a decimal number.
IsNumeric(str) ==
  /\ Len(str) >= 1
  /\ \A i \in 1..Len(str) : \E d \in 1..Len(Digits) : str[i] = Digits[d]

\* C16: for every call to a step's plugin, whatever GenReqParamsFunc
\* returned, reqParams has __name equal to the step's StepName and has
\* __goroutine_id, __executor_index, __worker_total, __worker_index and
\* __worker_concurrency, the four worker and executor identity values
\* being numeric.
C16_ReservedKeys ==
  \A e \in Execs :
    exec[e].pc = "call" =>
      LET reqParams == exec[e].req
      IN /\ { "__name", "__goroutine_id", "__executor_index", "__worker_total",
              "__worker_index", "__worker_concurrency" } \subseteq DOMAIN reqParams
         /\ reqParams["__name"] = StepName(exec[e].si)
         /\ \A k \in { "__executor_index", "__worker_total", "__worker_index",
                       "__worker_concurrency" } : IsNumeric(reqParams[k])

\* C21 (as the code has it): every record on the output channel is a
\* record a plugin returned without sub-records, or a sub-record attached
\* to the record a plugin returned; a record with sub-records that a
\* plugin returned is never on the channel, nor is a sub-record of a
\* sub-record (one level is flattened).
C21_OneLevelFlattened ==
  \A r \in hist.pushedAll :
    /\ r.sub \in 0..MaxSub
    /\ r.sub = 0 => r.SubResults = << >>

\* The channel has had a record returned without sub-records and a
\* sub-record that holds a sub-record of its own.
C21_Witness ==
  /\ \E r \in hist.pushedAll : r.sub = 0
  /\ \E r \in hist.pushedAll : r.sub >= 1 /\ r.SubResults # << >>

\* C21 (as stated): every record that appears on the output channel has
\* an empty subResults list.
C21_NoSubResultsOnChannel ==
  \A r \in hist.pushedAll : r.SubResults = << >>

\* C22 (as the code has it): after End is called on a record, and until
\* the plugin writes a field of it again, its Success flag equals
\* (ResponseCode = 200), whatever the plugin assigned to Success before.
C22_EndSetsSuccess ==
  result.atEnd => result.rec.Success = (result.rec.ResponseCode = 200)

\* End was called on a record with a response code other than 200 to
\* whose Success flag the plugin had assigned true.
C22_Witness ==
  /\ result.atEnd
  /\ result.assigned = << TRUE >>
  /\ result.rec.ResponseCode = 500
  /\ ~result.rec.Success

\* C22 (as stated): after End, the Success flag equals
\* (ResponseCode = 200) unless the plugin assigned the flag before the
\* call, in which case it has the plugin's value.
C22_AssignedSuccessKept ==
  result.atEnd =>
    result.rec.Success = (IF result.assigned = << >>
                          THEN result.rec.ResponseCode = 200
                          ELSE result.assigned[1])

\* C23: the IsRunning flag of a launched Case Runner changes only from
\* true to false, only through the stop procedure, and once the stop
\* procedure has set it false it never becomes true again.
C23_RunningOnlyFalls ==
  [][ \A i \in 1..Len(worker.runners) :
        /\ (worker.runners[i].IsRunning /\ ~worker'.runners[i].IsRunning) =>
             worker'.runners[i].stopped
        /\ worker.runners[i].stopped => ~worker'.runners[i].IsRunning ]_vars

\* The scheduler reads the length of a queue in this step.
SchedReadsLength ==
  sched.pc = "scan" /\ sched.todo # {} /\ sched' # sched

\* C24: every access to a rate-gate queue is made by the holder of the
\* Rate Gate mutex: the executor's enqueue, the scheduler's dequeue and
\* the scheduler's length check.
C24_QueueAccessUnderLock ==
  [][ /\ \A e \in Execs :
           (exec[e].pc = "add" /\ exec'[e].pc # "add") => Lock = << "exec", e >>
      /\ (sched.pc = "lock" /\ sched'.pc = "signal") => Lock' = << "sched" >>
      /\ SchedReadsLength => Lock = << "sched" >> ]_vars

\* A status push is made in this step.
Polls ==
  (\E rsp \in Responses : RealRun(rsp)) \/ RealRunNoResponse

\* C25: at every poll, if the Case Runner referred to has IsRunning false,
\* the reference is cleared and the worker idle before the payload is
\* built, and every entry of the payload is idle with count 0; if it has
\* IsRunning true, exactly the entry of its case is reported running, with
\* its count, and every other entry idle with count 0. (The entries of
\* TestCases after the poll are those of its payload.)
C25_StatusPayload ==
  [][ Polls =>
        LET cr == worker.RunningCaseRunner
            payload == worker'.TestCases
        IN /\ (cr # 0 /\ ~worker.runners[cr].IsRunning) =>
                /\ PushStatus(worker).RunningCaseRunner = 0
                /\ PushStatus(worker).Status = "idle"
                /\ \A i \in 1..Len(payload) :
                     /\ payload[i].Status = "idle"
                     /\ payload[i].ActiveConcurrencyCount = 0
           /\ (cr # 0 /\ worker.runners[cr].IsRunning) =>
                /\ Cardinality({ i \in 1..Len(payload) : payload[i].Status = "running" }) = 1
                /\ \A i \in 1..Len(payload) :
                     IF payload[i].Name = worker.runners[cr].TestCase
                     THEN /\ payload[i].Status = "running"
                          /\ payload[i].ActiveConcurrencyCount =
                               worker.runners[cr].ActiveConcurrencyCount
                     ELSE /\ payload[i].Status = "idle"
                          /\ payload[i].ActiveConcurrencyCount = 0 ]_vars

\* C26: a start directive that names a case not in the registry has no
\* effect: no Case Runner is instantiated, no goroutine started, and the
\* worker's status and running-runner reference are as the status push of
\* that poll left them.
C26_UnknownCaseNoOp ==
  [][ \A rsp \in Responses :
        (rsp.ShouldRunCase /\ rsp.Name \notin worker.CaseMaps /\ RealRun(rsp)) =>
          /\ worker'.runners = PushStatus(worker).runners
          /\ worker'.starting = worker.starting
          /\ worker'.Status = PushStatus(worker).Status
          /\ worker'.RunningCaseRunner = PushStatus(worker).RunningCaseRunner
          /\ worker'.CaseMaps = worker.CaseMaps ]_vars

\* A start directive naming an unknown case was handled while a runner
\* was running, and the worker still refers to it and is running.
C26_Witness ==
  /\ worker.unknownStart
  /\ worker.Status = "running"
  /\ worker.RunningCaseRunner # 0
  /\ worker.runners[worker.RunningCaseRunner].IsRunning

\* The names of the entries of the worker's TestCases, in order.
SummaryNames ==
  [ i \in 1..Len(worker.TestCases) |-> worker.TestCases[i].Name ]

\* The names of the status entries are those of the registry, each once,
\* and a refused name is a registered one.
RegistryUnique ==
  /\ { SummaryNames[i] : i \in 1..Len(SummaryNames) } = worker.CaseMaps
  /\ Len(SummaryNames) = Cardinality(worker.CaseMaps)
  /\ worker.refused # << >> => (crashed /\ worker.refused[1] \in worker.CaseMaps)

\* A registration changes the registry and the status entries only by
\* adding the new name and its idle entry, and a refused one is fatal and
\* changes neither.
RegistrationFrame ==
  \A name \in CaseNames :
        AddTestCase(name) =>
          IF name \in worker.CaseMaps
          THEN /\ crashed'
               /\ worker'.CaseMaps = worker.CaseMaps
               /\ worker'.TestCases = worker.TestCases
          ELSE /\ ~crashed'
               /\ worker'.CaseMaps = worker.CaseMaps \cup { name }
               /\ Cardinality(worker'.CaseMaps) = Cardinality(worker.CaseMaps) + 1
               /\ worker'.TestCases =
                    Append(worker.TestCases, [ Name |-> name, Status |-> "idle",
                                               ActiveConcurrencyCount |-> 0 ])

\* C27: registering a case under a name already registered is fatal and
\* leaves the registry and the status entries as they were; registering a
\* new name adds one registry entry and one idle status entry; so the
\* names in the registry and in the status entries stay unique.
C27_Registration ==
  []RegistryUnique /\ [][RegistrationFrame]_vars

\* A second registration under a registered name was refused, with both
\* names registered.
C27_Witness ==
  /\ worker.refused # << >>
  /\ crashed
  /\ Len(worker.TestCases) = 2

\* C28: the executors of one Case Runner are launched with the indices
\* 0, 1, ... in increasing order, so no two of them share an
\* __executor_index, and no two share a __goroutine_id, which is
\* "<caseName>-<index>".
C28_ExecutorIndices ==
  \A r \in 1..Len(worker.runners) :
    LET ids == worker.runners[r].ids
    IN /\ \A j \in 1..Len(ids) : ids[j] = j - 1
       /\ \A j, k \in 1..Len(ids) :
            GoroutineId(worker.runners[r].TestCase, ids[j]) =
              GoroutineId(worker.runners[r].TestCase, ids[k]) => j = k

\* The waiters released for a step while the case runs are no more than
\* the tokens granted for it.
ReleasedWithinGranted ==
  \A k \in GateKeys : hist.released[k] <= hist.granted[k]

\* A turn of the scan asks the bucket of a step only when the step's queue
\* is not empty, and a waiter released while the case runs is released in
\* the turn that was granted a token for its step, which then ends.
TokenThenRelease ==
  /\ (sched.pc = "scan" /\ sched' # sched /\ sched'.req # "none")
       => Len(QMap[sched'.k]) > 0
  /\ (sched.pc = "signal" /\ sched'.pc # "signal" /\ IsRunning)
       => /\ sched.req = "granted"
          /\ sched'.pc = "unlock"
          /\ hist'.released[sched.k] = hist.released[sched.k] + 1
          /\ hist'.granted = hist.granted
  /\ (sched.pc = "unlock" /\ sched'.pc # "unlock") => sched'.req = "none"

\* C29: while the case runs, the scheduler asks for a token only for a step
\* whose queue is not empty, every release of a waiter follows a token
\* granted for the same step in the same scan, one waiter at most per
\* token, and so the waiters released for a step while the case runs never
\* exceed the tokens granted for it.
C29_ReleaseFollowsToken ==
  []ReleasedWithinGranted /\ [][TokenThenRelease]_vars

\* Each step has released a waiter on a token while the case runs, and a
\* waiter is released without a token after the stop.
C29_Witness ==
  /\ \A k \in GateKeys : hist.released[k] = 1 /\ hist.granted[k] = 1
  /\ ~IsRunning
  /\ sched.pc = "signal"
  /\ sched.req = "denied"

\* The places of the stop procedure, in the order of its five steps.
StopPlaces ==
  << "idle", "detachOutput", "closeOutput", "detachMetrics", "closeMetrics", "done" >>

\* The place at position i does the i-th step.
StopStepDone(i) ==
  CASE i = 1 -> IsRunning /\ ~IsRunning'
    [] i = 2 -> ResChans = "rc" /\ ResChans' = "nil"
    [] i = 3 -> ~rc.closed /\ rc'.closed
    [] i = 4 -> MetricsChan = "mc" /\ MetricsChan' = "nil"
    [] i = 5 -> ~mc.closed /\ mc'.closed

\* Every move of the stop procedure is its next step, done once; no
\* channel is closed otherwise.
StopInOrder ==
  /\ stopPc' # stopPc
       => \E i \in 1..5 : /\ stopPc = StopPlaces[i]
                          /\ stopPc' = StopPlaces[i + 1]
                          /\ StopStepDone(i)
  /\ (rc'.closed # rc.closed \/ mc'.closed # mc.closed) => stopPc' # stopPc

\* The output channel is closed before the metrics channel, and when
\* IsRunning is false.
StopClosesInOrder ==
  /\ mc.closed => rc.closed
  /\ rc.closed => ~IsRunning

\* C30: the stop procedure does its five steps in order, each once: set
\* IsRunning false, detach the output channel, close it, detach the metrics
\* channel, close it; so the output channel is closed before the metrics
\* channel and never before IsRunning is false.
C30_StopOrder ==
  []StopClosesInOrder /\ [][StopInOrder]_vars

\* The sketch of key k in the map m: without samples when m has none.
SketchOf(m, k) ==
  IF k \in DOMAIN m THEN m[k] ELSE {}

\* The keys of m or n whose sketches differ.
ChangedSketches(m, n) ==
  { k \in DOMAIN m \cup DOMAIN n : SketchOf(m, k) # SketchOf(n, k) }

\* The records folded in this step.
FoldedNow ==
  { f.res : f \in hist'.folded \ hist.folded }

\* C31: each record the fold coroutine consumes adds one sample to four
\* sketches, those of step_call and step_call_integral for the whole case
\* (step name "_NONE_") and for the step of the record's name, all with the
\* record's success flag and status code; a missing sketch is created, and
\* no other sketch changes.
C31_FourSketchesPerRecord ==
  [][ \A res \in FoldedNow :
        LET four == { [ MetricName |-> m, IsWholeCase |-> w,
                        StepName |-> IF w THEN << 0, 0 >> ELSE res.Name,
                        Success |-> res.Success, StatusCode |-> res.ResponseCode,
                        Ts |-> 0 ] :
                      m \in { "step_call", "step_call_integral" }, w \in BOOLEAN }
        IN /\ Cardinality(four) = 4
           /\ ChangedSketches(callTimeMap, callTimeMap') = four
           /\ DOMAIN callTimeMap' = DOMAIN callTimeMap \cup four
           /\ \A k \in four :
                /\ << res.call, res.sub >> \notin SketchOf(callTimeMap, k)
                /\ callTimeMap'[k] = SketchOf(callTimeMap, k) \cup { << res.call, res.sub >> }
    ]_vars

\* Two records were folded into one whole-case sketch, and a sketch of a
\* step holds one sample.
C31_Witness ==
  /\ \E k \in DOMAIN callTimeMap : k.IsWholeCase /\ Cardinality(callTimeMap[k]) = 2
  /\ \E k \in DOMAIN callTimeMap : ~k.IsWholeCase /\ Cardinality(callTimeMap[k]) = 1

\* Executor e passes over its step in this step of the run: it is at the
\* top of the step loop with a step to run and the case running, and goes
\* neither to the rate gate nor to the callbacks, so ExecWhenFunc has
\* returned false.
SkipsStep(e) ==
  /\ exec[e].pc = "step"
  /\ exec[e].si <= Len(Teststeps)
  /\ IsRunning
  /\ exec'[e] # exec[e]
  /\ exec'[e].pc \notin { "lock", "gate" }

\* C32: when execWhen returns false for a step, the executor does not
\* enqueue at the step's rate gate and no token is taken for it, pre,
\* plugin and post are not called, no record is pushed, and the executor
\* goes on with the next step of the same iteration.
C32_SkippedStep ==
  [][ \A e \in Execs :
        SkipsStep(e) =>
          /\ exec'[e].pc = "step"
          /\ exec'[e].si = exec[e].si + 1
          /\ exec'[e].results = << >>
          /\ QMap' = QMap
          /\ Limter' = Limter
          /\ Lock' = Lock
          /\ rc' = rc
          /\ hist'.nCalls = hist.nCalls
          /\ hist'.invoked = hist.invoked
          /\ hist'.granted = hist.granted
          /\ hist'.pushedAll = hist.pushedAll
    ]_vars

\* An executor is at the plugin of the second step and no plugin was
\* called before: it passed over the rate-limited first step, for which no
\* token was granted.
C32_Witness ==
  \E e \in Execs :
    /\ exec[e].pc = "call"
    /\ exec[e].si = 2
    /\ hist.nCalls = 0
    /\ HasKey(1)
    /\ hist.granted[1] = 0
    /\ hist.pushedAll = {}

\* The smallest whole number of seconds w >= 1 for which floor(N * w / R)
\* is positive (N >= 1, R >= 1).
MinWindow(N, R) ==
  CHOOSE w \in 1..R : /\ (N * w) \div R > 0
                      /\ \A v \in 1..(w - 1) : (N * v) \div R = 0

\* No product of the computation leaves uint64 and no window leaves
\* time.Duration.
ScheduleInRange(N, R) ==
  /\ N * MinWindow(N, R) < 2^IntBits
  /\ MinWindow(N, R) * Second < 2^(DurationBits - 1)

\* The schedule of N executors over R seconds is as stated: the loop that
\* widens the window is at a window of whole seconds not beyond the
\* smallest one with a positive budget, and ends with that window and its
\* budget; without ramp the budget is 10000 per 10 ms.
ScheduleAsStated(N, R) ==
  /\ (ramp.pc = "widen")
       => \E v \in 1..MinWindow(N, R) :
            /\ ramp.duration = v * Second
            /\ ramp.limit = (N * v) \div R
  /\ (ramp.pc \in { "wait", "check", "count", "done" })
       => IF R = 0
          THEN ramp.limit = 10000 /\ ramp.duration = Second \div 100
          ELSE /\ ramp.duration = MinWindow(N, R) * Second
               /\ ramp.limit = (N * MinWindow(N, R)) \div R
               /\ ramp.limit >= 1

\* C33 (amended): for every N >= 1 and R >= 1 whose products stay within
\* uint64 and whose window stays within time.Duration, the computation of
\* the ramp schedule ends with a window of w whole seconds and a budget
\* b = floor(N * w / R) >= 1, w being the smallest integer >= 1 for which
\* floor(N * w / R) is positive; for R = 0 the budget is 10000 per 10 ms.
C33_ScheduleWithinRange ==
  LET N == Info.MaxConcurrencyInThisWoker
      R == Info.RampingSeconds
  IN (N >= 1 /\ (R = 0 \/ ScheduleInRange(N, R))) => ScheduleAsStated(N, R)

\* The window was widened to two seconds or more, within range, and the
\* ramp loop is to start with it.
C33_Witness ==
  /\ ramp.pc = "wait"
  /\ Info.RampingSeconds >= 1
  /\ ScheduleInRange(Info.MaxConcurrencyInThisWoker, Info.RampingSeconds)
  /\ ramp.duration >= 2 * Second
  /\ ramp.limit >= 1

\* C33: for every N >= 1 and R >= 1 the computation of the ramp schedule
\* ends with a window of w whole seconds and a budget b = floor(N * w / R)
\* >= 1, w being the smallest integer >= 1 for which floor(N * w / R) is
\* positive; for R = 0 the budget is 10000 per 10 ms.
C33_ScheduleForEveryInput ==
  Info.MaxConcurrencyInThisWoker >= 1
    => ScheduleAsStated(Info.MaxConcurrencyInThisWoker, Info.RampingSeconds)

\* C34: no goroutine ever sends on a closed channel: no executor sends a
\* record on the output channel after the stop procedure closed it, and
\* the fold coroutine never sends a batch on the metrics channel after it
\* was closed.
C34_NoSendOnClosed ==
  /\ ~hist.sendOnClosed
  /\ \A e \in Execs : ~(exec[e].pc = "sending" /\ exec[e].ch = "rc" /\ rc.closed)
  /\ ~(fold.pc = "emitting" /\ fold.ch = "mc" /\ mc.closed)

\* C35: a Case Runner the worker has launched stays the worker's running
\* runner until its stop procedure has set IsRunning false: the reference
\* is neither cleared nor replaced while the runner runs or starts up.
C35_RunnerStaysReferenced ==
  \A r \in 1..Len(worker.runners) :
    ~worker.runners[r].stopped => worker.RunningCaseRunner = r

\* C36: the stop procedure runs at most once on a Case Runner and only on
\* a runner whose channels have been made: it reads both channels made by
\* Run, closes each at most once and never closes a nil channel.
C36_StopOnMadeChannels ==
  /\ stopPc # "idle" => ResChans # "noOutput" /\ hist.stopMc = "mc"
  /\ stopPc # "panicked"

\* The goroutines Run started, the scheduler apart, have returned (an
\* executor the ramp loop never launched is no goroutine).
OthersReturned ==
  /\ ramp.pc = "done"
  /\ \A e \in Execs : exec[e].pc \in { "idle", "done" }
  /\ fold.pc = "done"
  /\ ship.pc = "done"

\* The scheduler has returned: it has left its loop.
SchedulerReturned ==
  sched.pc = "done"

\* C37: once the stop procedure has completed, every goroutine the runner
\* started (ramp loop, executors, scheduler, HandleOuput, SendMetrics)
\* eventually returns.
C37_AllReturnAfterStop ==
  (stopPc = "done") ~> (OthersReturned /\ SchedulerReturned)

\* The scheduler does not stay in its signal for ever.
SignalEnds ==
  (sched.pc = "signal") ~> (crashed \/ sched.pc # "signal")

\* No executor stays for ever at the acquisition of the mutex.
LockAcquired ==
  \A e \in Execs : (exec[e].pc = "lock") ~> (crashed \/ exec[e].pc # "lock")

\* No token is to come for step k: the bucket grants none, and every token
\* it granted has released a waiter.
NoTokenToCome(k) ==
  ~ShouldAllow(k) /\ hist.released[k] >= hist.granted[k]

\* An enqueued waiter is released, unless the case is stopped or no token
\* is to come for its step.
WaiterReleased ==
  \A e \in Execs :
    (exec[e].pc = "wait")
      ~> \/ crashed
         \/ exec[e].pc # "wait"
         \/ ~IsRunning
         \/ NoTokenToCome(exec[e].si)

\* C38: the rate gate cannot deadlock: the scheduler, which signals a
\* waiter with the mutex held, never stays in that signal for ever, no
\* executor stays for ever at the acquisition of the mutex, and while the
\* case runs an enqueued waiter is released as long as tokens for its step
\* are granted.
C38_GateNoDeadlock ==
  SignalEnds /\ LockAcquired /\ WaiterReleased

\* The scheduler signals a waiter with the mutex held while another
\* executor is at the acquisition of the mutex, and the case runs.
C38_Witness ==
  /\ sched.pc = "signal"
  /\ Lock = << "sched" >>
  /\ IsRunning
  /\ \E e \in Execs : exec[e].pc = "lock"

RECURSIVE SampleCount(_, _)
\* The samples in the sketches of m with the keys in ks, counted sketch by
\* sketch.
SampleCount(m, ks) ==
  IF ks = {} THEN 0
  ELSE LET k == CHOOSE x \in ks : TRUE
       IN Cardinality(m[k]) + SampleCount(m, ks \ { k })

\* The keys of m for the metric, success flag and status code of key g: of
\* the whole case, or of the steps.
Alike(m, g, whole) ==
  { k \in DOMAIN m : /\ k.IsWholeCase = whole
                      /\ k.MetricName = g.MetricName
                      /\ k.Success = g.Success
                      /\ k.StatusCode = g.StatusCode }

\* C39: between two records, for each metric and each pair of success
\* flag and status code, the whole-case sketch holds as many samples as
\* the sketches of the steps with that metric, flag and code hold together.
C39_WholeCaseIsSumOfSteps ==
  fold.pc = "recv" =>
    \A g \in DOMAIN callTimeMap :
      /\ Cardinality(Alike(callTimeMap, g, TRUE)) = 1
      /\ SampleCount(callTimeMap, Alike(callTimeMap, g, TRUE))
           = SampleCount(callTimeMap, Alike(callTimeMap, g, FALSE))

\* After a rollover, a whole-case sketch holds the samples of two step
\* sketches of different names.
C39_Witness ==
  /\ fold.pc = "recv"
  /\ hist.posted # << >>
  /\ \E g \in DOMAIN callTimeMap :
       /\ g.IsWholeCase
       /\ Cardinality(callTimeMap[g]) = 2
       /\ Cardinality(Alike(callTimeMap, g, FALSE)) = 2

\* The batches HandleOuput has built, in their order: those sent, and the
\* one it is about to send.
Batches ==
  Shipped \o (IF fold.pc \in { "emit", "emitting" } THEN << fold.metrics >> ELSE << >>)

\* The minutes the sketches of batch b are stamped with.
StampsOf(b) ==
  { m.Key.Ts : m \in b }

\* The samples folded into the sketch of m while the last observed minute
\* was t.
FoldedInMinute(m, t) ==
  { SampleOf(f.res) : f \in { g \in FoldedFor(MapKey(m)) : g.at = t } }

\* C40: in a case that is not stopped, where every batch is a rollover
\* batch: a batch is not empty and carries one stamp; each of its
\* non-integral sketches holds exactly the samples folded while the last
\* observed minute was that stamp; and the stamps of successive batches
\* increase strictly.
C40_RolloverBatches ==
  /\ \A i \in DOMAIN Batches :
       /\ Batches[i] # {}
       /\ Cardinality(StampsOf(Batches[i])) = 1
       /\ \A m \in Batches[i] :
            m.Key.MetricName = "step_call" => m.Value = FoldedInMinute(m, m.Key.Ts)
  /\ \A i, j \in DOMAIN Batches :
       i < j => \A t \in StampsOf(Batches[i]), u \in StampsOf(Batches[j]) : t < u

\* Two rollover batches of different minutes were posted, each with a
\* non-integral sketch, and a record is folded in a third minute.
C40_Witness ==
  /\ Len(hist.posted) = 2
  /\ \A i \in 1..2 : \E m \in hist.posted[i] :
       m.Key.MetricName = "step_call" /\ m.Value # {}
  /\ StampsOf(hist.posted[1]) # StampsOf(hist.posted[2])
  /\ \E f \in hist.folded : f.at = MaxMinutes
====
